---------------------------- MODULE Spec2Model ----------------------------
(***************************************************************************)
(* A model of the c3e dense linear-algebra engine (nthnn/c3e): the matrix  *)
(* storage, the row/column primitives, Gaussian elimination and what is    *)
(* derived from it (determinant, inverse, rank, solve), and the LU, QR and *)
(* Cholesky decompositions.                                                *)
(*                                                                         *)
(* Numbers.  c3e_number is a double.  The model computes with exact        *)
(* rationals carrying a decimal exponent, <<n, d, e>> = (n/d) * 10^e, so   *)
(* that the tolerances of the code (1e-10, 1e-8, 1e-5) and entries below   *)
(* them are values of the model.  The IEEE values the code can produce by  *)
(* dividing by zero are values too (NaN, PInf, NInf).  What this exact     *)
(* arithmetic leaves out is rounding and the sign of zero: a result not a  *)
(* rational the model can hold (an irrational square root, a numerator     *)
(* past 32 bits) is the value Inexact, and the operations are followed     *)
(* only on inputs whose results hold no Inexact.                           *)
(*                                                                         *)
(* The iterations (the QR algorithm, the SVD) leave the exact rationals at *)
(* their first square root, so the model has a second arithmetic for them: *)
(* decimal floating point, every operation rounding its result to Digits   *)
(* significant digits, ties to even, as the double operations round theirs *)
(* to 53 bits.  The operators that compute in it carry the suffix _r;      *)
(* those that have an exact counterpart are that one with the arithmetic   *)
(* replaced.  The two arithmetics agree wherever no rounding happens.      *)
(***************************************************************************)
EXTENDS Integers, Sequences, FiniteSets

(***************************************************************************)
(* Exact arithmetic                                                        *)
(***************************************************************************)
MaxInt == 2147483646 + 1

Zero == <<0, 1, 0>>
One == <<1, 1, 0>>
NaN == <<0, 0, 0>>
PInf == <<1, 0, 0>>
NInf == <<-1, 0, 0>>
Inexact == <<0, 0, 1>>

IsFinite(x) == x[2] > 0
IsNaN(x) == x = NaN
IsInexact(x) == x = Inexact
IsInf(x) == x = PInf \/ x = NInf

AbsInt(n) == IF n < 0 THEN -n ELSE n
SignInt(n) == IF n < 0 THEN -1 ELSE IF n > 0 THEN 1 ELSE 0
FitsMul(a, b) == b = 0 \/ AbsInt(a) <= MaxInt \div AbsInt(b)
FitsAdd(a, b) == AbsInt(a) <= MaxInt - AbsInt(b)

RECURSIVE GCD(_, _)
GCD(a, b) == IF b = 0 THEN a ELSE GCD(b, a % b)

RECURSIVE Pow10(_)
Pow10(k) == IF k = 0 THEN 1 ELSE 10 * Pow10(k - 1)

\* n / d * 10^e with the powers of ten taken out of n: the canonical form
\* of a finite number whose d is coprime to n and to 10.
RECURSIVE NormN(_, _, _)
NormN(n, d, e) ==
    IF n = 0 THEN Zero
    ELSE IF n % 10 = 0 THEN NormN(n \div 10, d, e + 1)
    ELSE <<n, d, e>>

\* The factors 2 and 5 of d moved into the exponent.
RECURSIVE NormD(_, _, _)
NormD(n, d, e) ==
    IF d % 2 = 0
    THEN IF FitsMul(n, 5) THEN NormD(n * 5, d \div 2, e - 1) ELSE Inexact
    ELSE IF d % 5 = 0
    THEN IF FitsMul(n, 2) THEN NormD(n * 2, d \div 5, e - 1) ELSE Inexact
    ELSE NormN(n, d, e)

\* The number n / d * 10^e, d # 0.
Rat(n, d, e) ==
    LET g == GCD(AbsInt(n), AbsInt(d))
    IN  NormD(SignInt(d) * (n \div g), AbsInt(d) \div g, e)

Num(n) == Rat(n, 1, 0)

Neg(x) == IF IsInexact(x) THEN Inexact ELSE <<-x[1], x[2], x[3]>>
Sign(x) == SignInt(x[1])
Fabs(x) == IF Sign(x) < 0 THEN Neg(x) ELSE x

Mul(x, y) ==
    IF IsInexact(x) \/ IsInexact(y) THEN Inexact
    ELSE IF IsNaN(x) \/ IsNaN(y) THEN NaN
    ELSE IF IsInf(x) \/ IsInf(y)
    THEN IF Sign(x) * Sign(y) = 0 THEN NaN
         ELSE IF Sign(x) * Sign(y) > 0 THEN PInf ELSE NInf
    ELSE LET g1 == GCD(AbsInt(x[1]), y[2])
             g2 == GCD(AbsInt(y[1]), x[2])
             a == x[1] \div g1
             b == y[1] \div g2
             c == x[2] \div g2
             d == y[2] \div g1
         IN  IF FitsMul(a, b) /\ FitsMul(c, d)
             THEN NormN(a * b, c * d, x[3] + y[3])
             ELSE Inexact

\* 1.0 / x
Recip(x) ==
    IF IsInexact(x) THEN Inexact
    ELSE IF IsNaN(x) THEN NaN
    ELSE IF IsInf(x) THEN Zero
    ELSE IF x = Zero THEN PInf
    ELSE Rat(x[2], x[1], -x[3])

Div(x, y) == Mul(x, Recip(y))

Add(x, y) ==
    IF IsInexact(x) \/ IsInexact(y) THEN Inexact
    ELSE IF IsNaN(x) \/ IsNaN(y) THEN NaN
    ELSE IF IsInf(x) /\ IsInf(y) THEN (IF x = y THEN x ELSE NaN)
    ELSE IF IsInf(x) THEN x
    ELSE IF IsInf(y) THEN y
    ELSE IF x = Zero THEN y
    ELSE IF y = Zero THEN x
    ELSE LET e == IF x[3] < y[3] THEN x[3] ELSE y[3]
             kx == x[3] - e
             ky == y[3] - e
             g == GCD(x[2], y[2])
             dx == y[2] \div g
             dy == x[2] \div g
         IN  IF kx > 9 \/ ky > 9 THEN Inexact
             ELSE IF ~FitsMul(x[1], Pow10(kx)) \/ ~FitsMul(y[1], Pow10(ky))
             THEN Inexact
             ELSE LET nx == x[1] * Pow10(kx)
                      ny == y[1] * Pow10(ky)
                  IN  IF FitsMul(nx, dx) /\ FitsMul(ny, dy)
                         /\ FitsMul(x[2], dx)
                         /\ FitsAdd(nx * dx, ny * dy)
                      THEN Rat(nx * dx + ny * dy, x[2] * dx, e)
                      ELSE Inexact

Sub(x, y) == Add(x, Neg(y))

\* The sign of a * 10^k - b for naturals a, b and k >= 0.
RECURSIVE CmpScaled(_, _, _)
CmpScaled(a, k, b) ==
    IF k = 0 THEN SignInt(a - b)
    ELSE IF a > b \div 10 THEN 1
    ELSE CmpScaled(a * 10, k - 1, b)

\* The sign of x - y for finite x, y > 0.
CmpPos(x, y) ==
    LET a == x[1] * y[2]
        b == y[1] * x[2]
    IN  IF x[3] >= y[3] THEN CmpScaled(a, x[3] - y[3], b)
        ELSE -CmpScaled(b, y[3] - x[3], a)

\* x > y as the C comparison: false when an operand is NaN.
Gt(x, y) ==
    IF IsNaN(x) \/ IsNaN(y) \/ IsInexact(x) \/ IsInexact(y) THEN FALSE
    ELSE IF x = y THEN FALSE
    ELSE IF x = PInf \/ y = NInf THEN TRUE
    ELSE IF x = NInf \/ y = PInf THEN FALSE
    ELSE IF Sign(x) # Sign(y) THEN Sign(x) > Sign(y)
    ELSE IF Sign(x) > 0 THEN CmpPos(x, y) > 0
    ELSE CmpPos(Neg(y), Neg(x)) > 0

Lt(x, y) == Gt(y, x)

\* x == y and x != y as the C comparisons (NaN equals nothing).
Eq(x, y) == ~IsNaN(x) /\ ~IsNaN(y) /\ x = y
Neq(x, y) == ~Eq(x, y)

\* The integer square root of a natural, by bisection.
RECURSIVE IsqrtIn(_, _, _)
IsqrtIn(n, lo, hi) ==
    IF lo >= hi THEN lo
    ELSE LET mid == (lo + hi + 1) \div 2
         IN  IF mid <= n \div mid THEN IsqrtIn(n, mid, hi)
             ELSE IsqrtIn(n, lo, mid - 1)

Isqrt(n) == IsqrtIn(n, 0, IF n < 46340 THEN n ELSE 46340)
IsSquare(n) == Isqrt(n) * Isqrt(n) = n

\* sqrt(x): exact when x is the square of a rational, Inexact otherwise.
Sqrt(x) ==
    IF IsInexact(x) THEN Inexact
    ELSE IF IsNaN(x) \/ Sign(x) < 0 THEN NaN
    ELSE IF x = PInf \/ x = Zero THEN x
    ELSE IF x[3] % 2 = 0 /\ IsSquare(x[1]) /\ IsSquare(x[2])
    THEN <<Isqrt(x[1]), Isqrt(x[2]), x[3] \div 2>>
    ELSE Inexact

(***************************************************************************)
(* Rounded arithmetic: decimal floating point of Digits digits.  A finite  *)
(* number is <<n, 1, e>> with |n| < 10^Digits; NaN and the infinities are  *)
(* those of the exact arithmetic, and the comparisons are shared.          *)
(***************************************************************************)
\* The significant digits a rounded result keeps.
Digits == 4

RECURSIVE DigitsOf(_)
DigitsOf(n) == IF n < 10 THEN 1 ELSE 1 + DigitsOf(n \div 10)

\* n * 10^e rounded to Digits significant digits, ties to even.
Round(n, e) ==
    LET a == AbsInt(n)
        k == DigitsOf(a) - Digits
    IN  IF k <= 0 THEN NormN(n, 1, e)
        ELSE LET p == Pow10(k)
                 q == a \div p
                 r == a % p
                 up == 2 * r > p \/ (2 * r = p /\ q % 2 = 1)
             IN  NormN(SignInt(n) * (IF up THEN q + 1 ELSE q), 1, e + k)

\* A rounded number x # 0 written with all its Digits digits: <<m, e>>,
\* x = m * 10^e.
Full(x) ==
    LET k == Digits - DigitsOf(AbsInt(x[1]))
    IN  <<x[1] * Pow10(k), x[3] - k>>

\* x + y rounded, for finite x, y # 0.  An operand more than Digits + 1
\* places below the other is below half a unit of its last place.
RoundedAdd(x, y) ==
    LET fx == Full(x)
        fy == Full(y)
    IN  IF fx[2] - fy[2] > Digits + 1 THEN x
        ELSE IF fy[2] - fx[2] > Digits + 1 THEN y
        ELSE IF fx[2] >= fy[2]
        THEN Round(fx[1] * Pow10(fx[2] - fy[2]) + fy[1], fy[2])
        ELSE Round(fy[1] * Pow10(fy[2] - fx[2]) + fx[1], fx[2])

\* x / y rounded, for finite x, y # 0: the quotient to Digits + 1 places
\* and one more digit that says whether anything is left below them.
RoundedDiv(x, y) ==
    LET fx == Full(x)
        fy == Full(y)
        a == AbsInt(fx[1]) * Pow10(Digits + 1)
        b == AbsInt(fy[1])
        q == 10 * (a \div b) + (IF a % b = 0 THEN 0 ELSE 1)
    IN  Round(SignInt(x[1]) * SignInt(y[1]) * q, fx[2] - fy[2] - Digits - 2)

\* sqrt(x) rounded, for finite x > 0.  The root of the Digits digits
\* scaled by an even power of ten has Digits digits before the point, and
\* lies above the half between s and s + 1 when scaled > s * s + s.
RoundedSqrt(x) ==
    LET fx == Full(x)
        odd == fx[2] % 2 = 1
        k == IF odd THEN Digits - 1 ELSE Digits
        scaled == fx[1] * Pow10(k)
        s == Isqrt(scaled)
    IN  NormN(IF scaled - s * s > s THEN s + 1 ELSE s, 1, (fx[2] - k) \div 2)

Mul_r(x, y) ==
    IF IsNaN(x) \/ IsNaN(y) THEN NaN
    ELSE IF IsInf(x) \/ IsInf(y)
    THEN IF Sign(x) * Sign(y) = 0 THEN NaN
         ELSE IF Sign(x) * Sign(y) > 0 THEN PInf ELSE NInf
    ELSE Round(x[1] * y[1], x[3] + y[3])

\* x / y: one operation, one rounding.
Div_r(x, y) ==
    IF IsNaN(x) \/ IsNaN(y) THEN NaN
    ELSE IF IsInf(y) THEN (IF IsInf(x) THEN NaN ELSE Zero)
    ELSE IF y = Zero
    THEN IF x = Zero THEN NaN ELSE IF Sign(x) > 0 THEN PInf ELSE NInf
    ELSE IF IsInf(x) THEN (IF Sign(x) * Sign(y) > 0 THEN PInf ELSE NInf)
    ELSE IF x = Zero THEN Zero
    ELSE RoundedDiv(x, y)

Add_r(x, y) ==
    IF IsNaN(x) \/ IsNaN(y) THEN NaN
    ELSE IF IsInf(x) /\ IsInf(y) THEN (IF x = y THEN x ELSE NaN)
    ELSE IF IsInf(x) THEN x
    ELSE IF IsInf(y) THEN y
    ELSE IF x = Zero THEN y
    ELSE IF y = Zero THEN x
    ELSE RoundedAdd(x, y)

Sub_r(x, y) == Add_r(x, Neg(y))

Sqrt_r(x) ==
    IF IsNaN(x) \/ Sign(x) < 0 THEN NaN
    ELSE IF x = PInf \/ x = Zero THEN x
    ELSE RoundedSqrt(x)

(***************************************************************************)
(* Dense matrix storage: rows, cols and the row-major buffer.  Rows and    *)
(* columns are counted from 0 as in the code; data is indexed from 1.      *)
(***************************************************************************)
RECURSIVE SumFrom(_, _, _)
SumFrom(acc, s, k) ==
    IF k > Len(s) THEN acc ELSE SumFrom(Add(acc, s[k]), s, k + 1)

\* sum = 0.0; for(k ...) sum += s[k];
Sum(s) == SumFrom(Zero, s, 1)

MATRIX_ELEM(matrix, row, col) == matrix.data[row * matrix.cols + col + 1]

SetElem(matrix, row, col, value) ==
    [matrix EXCEPT !.data[row * matrix.cols + col + 1] = value]

c3e_matrix_init(rows, cols) ==
    [rows |-> rows, cols |-> cols, data |-> [k \in 1..(rows * cols) |-> Zero]]

c3e_matrix_zeros(rows, cols) == c3e_matrix_init(rows, cols)

c3e_matrix_identity(side) ==
    LET out == c3e_matrix_zeros(side, side)
    IN  [out EXCEPT !.data = [k \in 1..(side * side) |->
            IF (k - 1) \div side = (k - 1) % side THEN One ELSE Zero]]

c3e_matrix_copy(matrix) ==
    LET out == c3e_matrix_init(matrix.rows, matrix.cols)
    IN  [out EXCEPT !.data = [k \in 1..(matrix.rows * matrix.cols) |->
            matrix.data[k]]]

\* The second loop of the axis-0 branch, from its k-th iteration on: it
\* writes subject's (i, j) at column j + matrix->rows of out.
RECURSIVE AppendSubject(_, _, _, _)
AppendSubject(out, matrix, subject, k) ==
    IF k >= subject.rows * subject.cols THEN out
    ELSE LET i == k \div subject.cols
             j == k % subject.cols
             p == i * out.cols + (j + matrix.rows) + 1
         IN  AppendSubject(
                 IF p \in DOMAIN out.data
                 THEN [out EXCEPT !.data[p] = MATRIX_ELEM(subject, i, j)]
                 ELSE out,
                 matrix, subject, k + 1)

\* c3e_matrix_append(matrix, subject, 0), for matrix->rows == subject->rows.
c3e_matrix_append(matrix, subject) ==
    LET init == c3e_matrix_init(matrix.rows, matrix.cols + subject.cols)
        left == [init EXCEPT !.data = [k \in DOMAIN init.data |->
                    IF (k - 1) % init.cols < matrix.cols
                    THEN MATRIX_ELEM(matrix, (k - 1) \div init.cols,
                                     (k - 1) % init.cols)
                    ELSE Zero]]
    IN  AppendSubject(left, matrix, subject, 0)

\* For matrix->cols == subject->rows.
c3e_matrix_mul(matrix, subject) ==
    LET out == c3e_matrix_init(matrix.rows, subject.cols)
    IN  [out EXCEPT !.data = [p \in DOMAIN out.data |->
            LET i == (p - 1) \div out.cols
                j == (p - 1) % out.cols
            IN  Sum([k \in 1..matrix.cols |->
                    Mul(MATRIX_ELEM(matrix, i, k - 1),
                        MATRIX_ELEM(subject, k - 1, j))])]]

c3e_matrix_transpose(matrix) ==
    LET out == c3e_matrix_init(matrix.cols, matrix.rows)
    IN  [out EXCEPT !.data = [p \in DOMAIN out.data |->
            MATRIX_ELEM(matrix, (p - 1) % out.cols, (p - 1) \div out.cols)]]

AbsTol == Rat(1, 1, -8)
RelTol == Rat(1, 1, -5)

\* fabs(x - ref) > 1e-08 + 1e-05 * fabs(ref).  Where the difference of two
\* magnitudes far apart is no number of the model, the same comparison is
\* made against ref + tol and ref - tol.
NotClose(x, ref) ==
    LET tol == Add(AbsTol, Mul(RelTol, Fabs(ref)))
        diff == Sub(x, ref)
    IN  IF ~IsInexact(diff) THEN Gt(Fabs(diff), tol)
        ELSE Gt(x, Add(ref, tol)) \/ Lt(x, Sub(ref, tol))

c3e_matrix_all_close(matrix, subject) ==
    IF matrix.rows # subject.rows \/ matrix.cols # subject.cols THEN FALSE
    ELSE \A p \in DOMAIN matrix.data : ~NotClose(matrix.data[p], subject.data[p])

(***************************************************************************)
(* Row and column primitives                                               *)
(***************************************************************************)
PivotTol == Rat(1, 1, -10)

\* The first row i >= row with fabs(matrix[i][col]) > 1e-10, or -1.
RECURSIVE FindPivotFrom(_, _, _)
FindPivotFrom(matrix, col, i) ==
    IF i >= matrix.rows THEN -1
    ELSE IF Gt(Fabs(MATRIX_ELEM(matrix, i, col)), PivotTol) THEN i
    ELSE FindPivotFrom(matrix, col, i + 1)

\* c3e_matrix_find_pivot choosing the entry of largest magnitude among the
\* adequate ones (partial pivoting) instead of the first.
c3e_matrix_find_pivot_largest(matrix, col, row) ==
    LET adequate == {i \in row..(matrix.rows - 1) :
                        Gt(Fabs(MATRIX_ELEM(matrix, i, col)), PivotTol)}
    IN  IF adequate = {} THEN -1
        ELSE CHOOSE i \in adequate : \A k \in adequate :
                \/ Gt(Fabs(MATRIX_ELEM(matrix, i, col)),
                      Fabs(MATRIX_ELEM(matrix, k, col)))
                \/ /\ Eq(Fabs(MATRIX_ELEM(matrix, i, col)),
                         Fabs(MATRIX_ELEM(matrix, k, col)))
                   /\ i <= k

c3e_matrix_find_pivot(matrix, col, row) == FindPivotFrom(matrix, col, row)

c3e_matrix_add_row(matrix, row1, row2, scalar) ==
    [matrix EXCEPT !.data = [p \in DOMAIN matrix.data |->
        IF (p - 1) \div matrix.cols = row1
        THEN Add(matrix.data[p],
                 Mul(scalar, MATRIX_ELEM(matrix, row2, (p - 1) % matrix.cols)))
        ELSE matrix.data[p]]]

\* c3e_matrix_swap_rows without the temporary x: row2 is assigned what row1
\* has just received.
c3e_matrix_swap_rows_untemped(matrix, row1, row2) ==
    IF row1 = row2 THEN matrix
    ELSE [matrix EXCEPT !.data = [p \in DOMAIN matrix.data |->
            IF (p - 1) \div matrix.cols = row1
            THEN MATRIX_ELEM(matrix, row2, (p - 1) % matrix.cols)
            ELSE matrix.data[p]]]

c3e_matrix_swap_rows(matrix, row1, row2) ==
    IF row1 = row2 THEN matrix
    ELSE [matrix EXCEPT !.data = [p \in DOMAIN matrix.data |->
            LET i == (p - 1) \div matrix.cols
                j == (p - 1) % matrix.cols
            IN  IF i = row1 THEN MATRIX_ELEM(matrix, row2, j)
                ELSE IF i = row2 THEN MATRIX_ELEM(matrix, row1, j)
                ELSE matrix.data[p]]]

c3e_matrix_multiply_row(matrix, row, x) ==
    [matrix EXCEPT !.data = [p \in DOMAIN matrix.data |->
        IF (p - 1) \div matrix.cols = row THEN Mul(matrix.data[p], x)
        ELSE matrix.data[p]]]

\* dst[i][dst_col] = matrix[i][col] for every row i.
matrix_col_copy(matrix, col, dst, dst_col) ==
    [dst EXCEPT !.data = [p \in DOMAIN dst.data |->
        IF (p - 1) % dst.cols = dst_col /\ (p - 1) \div dst.cols < matrix.rows
        THEN MATRIX_ELEM(matrix, (p - 1) \div dst.cols, col)
        ELSE dst.data[p]]]

\* matrix[i][col] -= scalar * dst[i][dst_col] for every row i.  The code
\* passes the same matrix as dst with dst_col # col, so the column it reads
\* is not the one it writes.
matrix_col_subtract(matrix, col, dst, dst_col, scalar) ==
    [matrix EXCEPT !.data = [p \in DOMAIN matrix.data |->
        IF (p - 1) % matrix.cols = col
        THEN Sub(matrix.data[p],
                 Mul(scalar, MATRIX_ELEM(dst, (p - 1) \div matrix.cols, dst_col)))
        ELSE matrix.data[p]]]

matrix_col_divide(matrix, col, scalar) ==
    [matrix EXCEPT !.data = [p \in DOMAIN matrix.data |->
        IF (p - 1) % matrix.cols = col THEN Div(matrix.data[p], scalar)
        ELSE matrix.data[p]]]

c3e_vector_dot_cols(matrix, col1, subject, col2) ==
    Sum([k \in 1..matrix.rows |->
        Mul(MATRIX_ELEM(matrix, k - 1, col1), MATRIX_ELEM(subject, k - 1, col2))])

c3e_vector_length(matrix, col) ==
    Sqrt(Sum([k \in 1..matrix.rows |->
        Mul(MATRIX_ELEM(matrix, k - 1, col), MATRIX_ELEM(matrix, k - 1, col))]))

(***************************************************************************)
(* Gaussian elimination and what is derived from it                        *)
(***************************************************************************)
\* The rows i # lead, from row i on: add_row(out, i, lead, -out[i][lead]).
RECURSIVE EliminateFrom(_, _, _)
EliminateFrom(out, lead, i) ==
    IF i >= out.rows THEN out
    ELSE IF i = lead THEN EliminateFrom(out, lead, i + 1)
    ELSE EliminateFrom(
             c3e_matrix_add_row(out, i, lead, Neg(MATRIX_ELEM(out, i, lead))),
             lead, i + 1)

\* The while loop of c3e_matrix_row_echelon from pivot position lead on.
RECURSIVE EchelonFrom(_, _)
EchelonFrom(out, lead) ==
    IF ~(lead < out.rows /\ lead < out.cols) THEN out
    ELSE LET pivot == c3e_matrix_find_pivot(out, lead, lead)
         IN  IF pivot = -1 THEN EchelonFrom(out, lead + 1)
             ELSE LET swapped == c3e_matrix_swap_rows(out, lead, pivot)
                      scaled == c3e_matrix_multiply_row(swapped, lead,
                                    Recip(MATRIX_ELEM(swapped, lead, lead)))
                  IN  EchelonFrom(EliminateFrom(scaled, lead, 0), lead + 1)

\* if(x == -0.0) x = 0.0: the model has one zero, which it leaves in place.
NoNegativeZero(out) ==
    [out EXCEPT !.data = [p \in DOMAIN out.data |->
        IF Eq(out.data[p], Zero) THEN Zero ELSE out.data[p]]]

c3e_matrix_row_echelon(matrix) ==
    NoNegativeZero(EchelonFrom(c3e_matrix_copy(matrix), 0))

\* The (n-1) x (n-1) submatrix the loop of the determinant fills for column
\* i: rows 1..n-1 and the columns k # i, in row-major order.
Submatrix(matrix, i) ==
    LET n == matrix.rows
        sub == c3e_matrix_init(n - 1, n - 1)
    IN  [sub EXCEPT !.data = [p \in DOMAIN sub.data |->
            LET r == (p - 1) \div (n - 1)
                c == (p - 1) % (n - 1)
            IN  MATRIX_ELEM(matrix, r + 1, IF c < i THEN c ELSE c + 1)]]

\* c3e_matrix_determinant with every term of the expansion added.
RECURSIVE c3e_matrix_determinant_unsigned(_)
c3e_matrix_determinant_unsigned(matrix) ==
    LET n == matrix.rows
    IN  IF n = 1 THEN matrix.data[1]
        ELSE IF n = 2
        THEN Sub(Mul(matrix.data[1], matrix.data[4]),
                 Mul(matrix.data[2], matrix.data[3]))
        ELSE Sum([k \in 1..n |->
                 Mul(matrix.data[k],
                     c3e_matrix_determinant_unsigned(Submatrix(matrix, k - 1)))])

\* For matrix->rows == matrix->cols.
RECURSIVE c3e_matrix_determinant(_)
c3e_matrix_determinant(matrix) ==
    LET n == matrix.rows
    IN  IF n = 1 THEN matrix.data[1]
        ELSE IF n = 2
        THEN Sub(Mul(matrix.data[1], matrix.data[4]),
                 Mul(matrix.data[2], matrix.data[3]))
        ELSE Sum([k \in 1..n |->
                 Mul(Mul(IF (k - 1) % 2 = 0 THEN One ELSE Neg(One),
                         matrix.data[k]),
                     c3e_matrix_determinant(Submatrix(matrix, k - 1)))])

\* c3e_matrix_inverse without its second assertion.
InverseAccepts_square(matrix) == matrix.rows = matrix.cols

\* The two assertions of c3e_matrix_inverse.
InverseAccepts(matrix) ==
    /\ matrix.rows = matrix.cols
    /\ Neq(c3e_matrix_determinant(matrix), Zero)

c3e_matrix_inverse(matrix) ==
    LET n == matrix.rows
        eye == c3e_matrix_identity(n)
        aug == c3e_matrix_append(matrix, eye)
        echelon == c3e_matrix_row_echelon(aug)
        inv == c3e_matrix_init(n, n)
    IN  [inv EXCEPT !.data = [p \in DOMAIN inv.data |->
            echelon.data[((p - 1) \div n) * (2 * n) + n + ((p - 1) % n) + 1]]]

c3e_matrix_non_zero_rows(matrix) ==
    Cardinality({p \in DOMAIN matrix.data :
        /\ ~Eq(matrix.data[p], Zero)
        /\ Neq(MATRIX_ELEM(matrix, (p - 1) \div matrix.cols,
                           (p - 1) % matrix.cols), Zero)
        /\ p % matrix.cols = 0})

\* c3e_matrix_rank without the branch for a non-zero determinant.
c3e_matrix_rank_eliminating(matrix) ==
    c3e_matrix_non_zero_rows(c3e_matrix_row_echelon(matrix))

c3e_matrix_rank(matrix) ==
    IF matrix.rows = matrix.cols /\ Neq(c3e_matrix_determinant(matrix), Zero)
    THEN matrix.rows
    ELSE c3e_matrix_non_zero_rows(c3e_matrix_row_echelon(matrix))

\* For a square non-singular matrix and subject->rows == matrix->rows.
c3e_matrix_solve(matrix, subject) ==
    LET inv == c3e_matrix_inverse(matrix)
    IN  c3e_matrix_mul(c3e_matrix_transpose(subject), inv)

(***************************************************************************)
(* Decompositions.  A pair (tuple) is [a |-> matrix, b |-> matrix].        *)
(***************************************************************************)
\* QrProject with the coefficient stored at (i, j) in place of (j, i).
RECURSIVE QrProject_below(_, _, _)
QrProject_below(st, i, j) ==
    IF j >= i THEN st
    ELSE LET r == c3e_vector_dot_cols(st.orthogonal, i, st.orthogonal, j)
         IN  QrProject_below(
                 [orthogonal |-> matrix_col_subtract(st.orthogonal, i,
                                     st.orthogonal, j, r),
                  uppertri |-> SetElem(st.uppertri, i, j, r)],
                 i, j + 1)

\* The inner loop of c3e_matrix_qr_decomp for column i, from j on; st holds
\* the two accumulators.
RECURSIVE QrProject(_, _, _)
QrProject(st, i, j) ==
    IF j >= i THEN st
    ELSE LET r == c3e_vector_dot_cols(st.orthogonal, i, st.orthogonal, j)
         IN  QrProject(
                 [orthogonal |-> matrix_col_subtract(st.orthogonal, i,
                                     st.orthogonal, j, r),
                  uppertri |-> SetElem(st.uppertri, j, i, r)],
                 i, j + 1)

\* The outer loop, from column i on.
RECURSIVE QrFrom(_, _, _)
QrFrom(original, st, i) ==
    IF i >= original.cols THEN st
    ELSE LET copied == [st EXCEPT !.orthogonal =
                           matrix_col_copy(original, i, st.orthogonal, i)]
             projected == QrProject(copied, i, 0)
             norm == c3e_vector_length(projected.orthogonal, i)
         IN  QrFrom(original,
                 [orthogonal |-> matrix_col_divide(projected.orthogonal, i, norm),
                  uppertri |-> SetElem(projected.uppertri, i, i, norm)],
                 i + 1)

\* The two assertions of c3e_matrix_qr_decomp.
QrAccepts(matrix) ==
    /\ matrix.rows = matrix.cols
    /\ Neq(c3e_matrix_determinant(matrix), Zero)

c3e_matrix_qr_decomp(matrix) ==
    LET original == c3e_matrix_copy(matrix)
        st == QrFrom(original,
                  [orthogonal |-> c3e_matrix_zeros(matrix.rows, matrix.cols),
                   uppertri |-> c3e_matrix_zeros(matrix.rows, matrix.cols)],
                  0)
    IN  [a |-> st.orthogonal, b |-> st.uppertri]

\* sum of lower[r][j] * upper[j][c] for j < i.
LuSum(lower, upper, r, c, i) ==
    Sum([j \in 1..i |->
        Mul(MATRIX_ELEM(lower, r, j - 1), MATRIX_ELEM(upper, j - 1, c))])

\* The second inner loop of c3e_matrix_lu_decomp: column i of lower, from
\* row k on.
RECURSIVE LuLowerFrom(_, _, _, _, _)
LuLowerFrom(original, lower, upper, i, k) ==
    IF k >= original.rows THEN lower
    ELSE LuLowerFrom(original,
             SetElem(lower, k, i,
                 Div(Sub(MATRIX_ELEM(original, k, i),
                         LuSum(lower, upper, k, i, i)),
                     MATRIX_ELEM(upper, i, i))),
             upper, i, k + 1)

\* The first inner loop: row i of upper, from column k on.
RECURSIVE LuUpperFrom(_, _, _, _, _)
LuUpperFrom(original, lower, upper, i, k) ==
    IF k >= original.rows THEN upper
    ELSE LuUpperFrom(original, lower,
             SetElem(upper, i, k,
                 Sub(MATRIX_ELEM(original, i, k), LuSum(lower, upper, i, k, i))),
             i, k + 1)

\* The outer loop, from row i on.
RECURSIVE LuFrom(_, _, _, _)
LuFrom(original, lower, upper, i) ==
    IF i >= original.rows THEN [a |-> lower, b |-> upper]
    ELSE LET up == LuUpperFrom(original, lower, upper, i, 0)
             lo == LuLowerFrom(original, lower, up, i, i + 1)
         IN  LuFrom(original, SetElem(lo, i, i, One), up, i + 1)

\* For original->rows == original->cols.
c3e_matrix_lu_decomp(original) ==
    LET n == original.rows
    IN  LuFrom(original, c3e_matrix_init(n, n), c3e_matrix_init(n, n), 0)

\* The assertion of c3e_matrix_cholesky_decomp.
CholeskyAccepts(matrix) ==
    c3e_matrix_all_close(matrix, c3e_matrix_transpose(matrix))

\* CholeskyFrom without the division by the diagonal entry.
RECURSIVE CholeskyFrom_undivided(_, _, _, _)
CholeskyFrom_undivided(matrix, lower, i, j) ==
    IF i >= matrix.rows THEN lower
    ELSE IF j > i THEN CholeskyFrom_undivided(matrix, lower, i + 1, 0)
    ELSE LET sum == Sum([k \in 1..j |->
                        Mul(MATRIX_ELEM(lower, i, k - 1),
                            MATRIX_ELEM(lower, j, k - 1))])
             value == IF i = j
                      THEN Sqrt(Sub(MATRIX_ELEM(matrix, i, j), sum))
                      ELSE Sub(MATRIX_ELEM(matrix, i, j), sum)
         IN  CholeskyFrom_undivided(matrix, SetElem(lower, i, j, value), i, j + 1)

\* The loops of c3e_matrix_cholesky_decomp over i and j <= i, from entry
\* (i, j) on.
RECURSIVE CholeskyFrom(_, _, _, _)
CholeskyFrom(matrix, lower, i, j) ==
    IF i >= matrix.rows THEN lower
    ELSE IF j > i THEN CholeskyFrom(matrix, lower, i + 1, 0)
    ELSE LET sum == Sum([k \in 1..j |->
                        Mul(MATRIX_ELEM(lower, i, k - 1),
                            MATRIX_ELEM(lower, j, k - 1))])
             value == IF i = j
                      THEN Sqrt(Sub(MATRIX_ELEM(matrix, i, j), sum))
                      ELSE Mul(Recip(MATRIX_ELEM(lower, j, j)),
                               Sub(MATRIX_ELEM(matrix, i, j), sum))
         IN  CholeskyFrom(matrix, SetElem(lower, i, j, value), i, j + 1)

c3e_matrix_cholesky_decomp(matrix) ==
    CholeskyFrom(matrix, c3e_matrix_zeros(matrix.rows, matrix.cols), 0, 0)

\* out[i][j] = matrix[i][j] where j <= i - diag, and 0.0 elsewhere.
c3e_matrix_tril(matrix, diag) ==
    LET out == c3e_matrix_init(matrix.rows, matrix.cols)
    IN  [out EXCEPT !.data = [p \in DOMAIN out.data |->
            LET i == (p - 1) \div out.cols
                j == (p - 1) % out.cols
            IN  IF j <= i - diag THEN MATRIX_ELEM(matrix, i, j) ELSE Zero]]

(***************************************************************************)
(* The QR algorithm, the SVD iteration and what is read from them.  A call *)
(* in which an assertion fails does not return: its value is Died, and so  *)
(* is the value of every call around it.  The loops are given pass by      *)
(* pass, in the rounded arithmetic: the state machine below runs them.     *)
(***************************************************************************)
\* No entry of the matrix is a number the model cannot hold.
Exact(m) == \A p \in DOMAIN m.data : ~IsInexact(m.data[p])

Died == [died |-> TRUE]
HasDied(v) == "died" \in DOMAIN v

(***************************************************************************)
(* The operators the iterations call, in the rounded arithmetic.           *)
(***************************************************************************)
RECURSIVE SumFrom_r(_, _, _)
SumFrom_r(acc, s, k) ==
    IF k > Len(s) THEN acc ELSE SumFrom_r(Add_r(acc, s[k]), s, k + 1)

\* sum = 0.0; for(k ...) sum += s[k];
Sum_r(s) == SumFrom_r(Zero, s, 1)

\* For matrix->cols == subject->rows.
c3e_matrix_mul_r(matrix, subject) ==
    LET out == c3e_matrix_init(matrix.rows, subject.cols)
    IN  [out EXCEPT !.data = [p \in DOMAIN out.data |->
            LET i == (p - 1) \div out.cols
                j == (p - 1) % out.cols
            IN  Sum_r([k \in 1..matrix.cols |->
                    Mul_r(MATRIX_ELEM(matrix, i, k - 1),
                        MATRIX_ELEM(subject, k - 1, j))])]]

\* fabs(x - ref) > 1e-08 + 1e-05 * fabs(ref).
NotClose_r(x, ref) ==
    Gt(Fabs(Sub_r(x, ref)), Add_r(AbsTol, Mul_r(RelTol, Fabs(ref))))

c3e_matrix_all_close_r(matrix, subject) ==
    IF matrix.rows # subject.rows \/ matrix.cols # subject.cols THEN FALSE
    ELSE \A p \in DOMAIN matrix.data : ~NotClose_r(matrix.data[p], subject.data[p])

\* matrix[i][col] -= scalar * dst[i][dst_col] for every row i.  The code
\* passes the same matrix as dst with dst_col # col, so the column it reads
\* is not the one it writes.
matrix_col_subtract_r(matrix, col, dst, dst_col, scalar) ==
    [matrix EXCEPT !.data = [p \in DOMAIN matrix.data |->
        IF (p - 1) % matrix.cols = col
        THEN Sub_r(matrix.data[p],
                 Mul_r(scalar, MATRIX_ELEM(dst, (p - 1) \div matrix.cols, dst_col)))
        ELSE matrix.data[p]]]

matrix_col_divide_r(matrix, col, scalar) ==
    [matrix EXCEPT !.data = [p \in DOMAIN matrix.data |->
        IF (p - 1) % matrix.cols = col THEN Div_r(matrix.data[p], scalar)
        ELSE matrix.data[p]]]

c3e_vector_dot_cols_r(matrix, col1, subject, col2) ==
    Sum_r([k \in 1..matrix.rows |->
        Mul_r(MATRIX_ELEM(matrix, k - 1, col1), MATRIX_ELEM(subject, k - 1, col2))])

c3e_vector_length_r(matrix, col) ==
    Sqrt_r(Sum_r([k \in 1..matrix.rows |->
        Mul_r(MATRIX_ELEM(matrix, k - 1, col), MATRIX_ELEM(matrix, k - 1, col))]))

\* For matrix->rows == matrix->cols.
RECURSIVE c3e_matrix_determinant_r(_)
c3e_matrix_determinant_r(matrix) ==
    LET n == matrix.rows
    IN  IF n = 1 THEN matrix.data[1]
        ELSE IF n = 2
        THEN Sub_r(Mul_r(matrix.data[1], matrix.data[4]),
                 Mul_r(matrix.data[2], matrix.data[3]))
        ELSE Sum_r([k \in 1..n |->
                 Mul_r(Mul_r(IF (k - 1) % 2 = 0 THEN One ELSE Neg(One),
                         matrix.data[k]),
                     c3e_matrix_determinant_r(Submatrix(matrix, k - 1)))])

\* The inner loop of c3e_matrix_qr_decomp for column i, from j on; st holds
\* the two accumulators.
RECURSIVE QrProject_r(_, _, _)
QrProject_r(st, i, j) ==
    IF j >= i THEN st
    ELSE LET r == c3e_vector_dot_cols_r(st.orthogonal, i, st.orthogonal, j)
         IN  QrProject_r(
                 [orthogonal |-> matrix_col_subtract_r(st.orthogonal, i,
                                     st.orthogonal, j, r),
                  uppertri |-> SetElem(st.uppertri, j, i, r)],
                 i, j + 1)

\* The outer loop, from column i on.
RECURSIVE QrFrom_r(_, _, _)
QrFrom_r(original, st, i) ==
    IF i >= original.cols THEN st
    ELSE LET copied == [st EXCEPT !.orthogonal =
                           matrix_col_copy(original, i, st.orthogonal, i)]
             projected == QrProject_r(copied, i, 0)
             norm == c3e_vector_length_r(projected.orthogonal, i)
         IN  QrFrom_r(original,
                 [orthogonal |-> matrix_col_divide_r(projected.orthogonal, i, norm),
                  uppertri |-> SetElem(projected.uppertri, i, i, norm)],
                 i + 1)

\* The two assertions of c3e_matrix_qr_decomp.
QrAccepts_r(matrix) ==
    /\ matrix.rows = matrix.cols
    /\ Neq(c3e_matrix_determinant_r(matrix), Zero)

c3e_matrix_qr_decomp_r(matrix) ==
    LET original == c3e_matrix_copy(matrix)
        st == QrFrom_r(original,
                  [orthogonal |-> c3e_matrix_zeros(matrix.rows, matrix.cols),
                   uppertri |-> c3e_matrix_zeros(matrix.rows, matrix.cols)],
                  0)
    IN  [a |-> st.orthogonal, b |-> st.uppertri]

Vector(size, data) == [size |-> size, data |-> data]

c3e_vector_zeros(size) == Vector(size, [i \in 1..size |-> Zero])

c3e_vector_all_close_r(vector, subject) ==
    IF vector.size # subject.size THEN FALSE
    ELSE \A i \in 1..vector.size : ~NotClose_r(vector.data[i], subject.data[i])

c3e_matrix_abs(matrix) ==
    [matrix EXCEPT !.data = [p \in DOMAIN matrix.data |-> Fabs(matrix.data[p])]]

RECURSIVE MaxFrom(_, _, _)
MaxFrom(max_val, data, i) ==
    IF i > Len(data) THEN max_val
    ELSE MaxFrom(IF Gt(data[i], max_val) THEN data[i] ELSE max_val, data, i + 1)

c3e_matrix_max(matrix) == MaxFrom(NInf, matrix.data, 1)

\* The diagonal k of a square matrix, |k| < rows.
c3e_matrix_diagonal(matrix, k) ==
    IF matrix.rows # matrix.cols \/ AbsInt(k) >= matrix.rows THEN Died
    ELSE Vector(matrix.rows - AbsInt(k), [i \in 1..(matrix.rows - AbsInt(k)) |->
            IF k >= 0 THEN MATRIX_ELEM(matrix, i - 1, i - 1 + AbsInt(k))
            ELSE MATRIX_ELEM(matrix, i - 1 + AbsInt(k), i - 1)])

\* matrix - subject, a matrix with one row or one column repeated.
c3e_matrix_sub_r(matrix, subject) ==
    IF ~(matrix.rows = subject.rows \/ matrix.rows = 1 \/ subject.rows = 1)
       \/ ~(matrix.cols = subject.cols \/ matrix.cols = 1 \/ subject.cols = 1)
    THEN Died
    ELSE LET rows == IF matrix.rows > subject.rows THEN matrix.rows
                     ELSE subject.rows
             cols == IF matrix.cols > subject.cols THEN matrix.cols
                     ELSE subject.cols
             out == c3e_matrix_init(rows, cols)
         IN  [out EXCEPT !.data = [p \in DOMAIN out.data |->
                 LET i == (p - 1) \div out.cols
                     j == (p - 1) % out.cols
                 IN  IF i < matrix.rows /\ j < matrix.cols
                     THEN Sub_r(MATRIX_ELEM(matrix,
                                  IF matrix.rows = 1 THEN 0 ELSE i,
                                  IF matrix.cols = 1 THEN 0 ELSE j),
                              MATRIX_ELEM(subject,
                                  IF subject.rows = 1 THEN 0 ELSE i,
                                  IF subject.cols = 1 THEN 0 ELSE j))
                     ELSE Zero]]

c3e_matrix_scalar_mul_r(matrix, x) ==
    [matrix EXCEPT !.data = [p \in DOMAIN matrix.data |-> Mul_r(matrix.data[p], x)]]

\* The rows from_rows..to_rows-1 and the columns from_cols..to_cols-1.
c3e_matrix_slice(matrix, from_rows, to_rows, from_cols, to_cols) ==
    IF ~(from_rows >= 0 /\ from_cols >= 0
         /\ to_rows <= matrix.rows /\ to_cols <= matrix.cols)
    THEN Died
    ELSE LET out == c3e_matrix_init(to_rows - from_rows, to_cols - from_cols)
         IN  [out EXCEPT !.data = [p \in DOMAIN out.data |->
                 MATRIX_ELEM(matrix, from_rows + ((p - 1) \div out.cols),
                                     from_cols + ((p - 1) % out.cols))]]

c3e_matrix_frobenius_r(matrix) ==
    Sqrt_r(Sum_r([p \in DOMAIN matrix.data |->
                 Mul_r(matrix.data[p], matrix.data[p])]))

\* The iteration cap and the tolerance of c3e_matrix_qr_algo.
QrAlgoCap == 500
QrAlgoTol == Rat(1, 1, -10)

\* The end of a pass of the loop of c3e_matrix_qr_algo: next is the new
\* out, done the test of the break.
QrAlgoTest(next) ==
    [out |-> next,
     done |-> Lt(c3e_matrix_max(c3e_matrix_abs(c3e_matrix_tril(next, -1))),
                 QrAlgoTol)]

\* The pass once c3e_matrix_qr_decomp has returned qr.
QrAlgoMul(qr) == QrAlgoTest(c3e_matrix_mul_r(qr.b, qr.a))

\* One pass of the loop of c3e_matrix_qr_algo on out; done is its break.
QrAlgoPass(out) ==
    IF ~QrAccepts_r(out) THEN Died
    ELSE QrAlgoMul(c3e_matrix_qr_decomp_r(out))

\* The eigenvalues read from the first row of what c3e_matrix_qr_algo
\* returned instead of its diagonal.
c3e_matrix_eigenvalues_row(decomp) ==
    Vector(decomp.rows, [i \in 1..decomp.rows |-> MATRIX_ELEM(decomp, 0, i - 1)])

\* c3e_matrix_eigenvalues, given decomp, what c3e_matrix_qr_algo returned.
c3e_matrix_eigenvalues(decomp) ==
    Vector(decomp.rows, [i \in 1..decomp.rows |->
        MATRIX_ELEM(decomp, i - 1, i - 1)])

\* The iteration cap of c3e_svd_init.
SvdCap == 100

\* The locals of c3e_svd_init before its loop.
SvdLocals(matrix) ==
    [left |-> c3e_matrix_identity(matrix.rows),
     right |-> c3e_matrix_identity(matrix.cols),
     singular |-> c3e_matrix_copy(matrix)]

\* The end of a pass of the loop of c3e_svd_init: the two products, the
\* new singular and the test of the break.
SvdTest(st, left_sg, right_sg, singular) ==
    [left |-> c3e_matrix_mul_r(st.left, left_sg.a),
     right |-> c3e_matrix_mul_r(st.right, right_sg.a),
     singular |-> singular,
     done |-> c3e_vector_all_close_r(c3e_matrix_diagonal(singular, 0),
                                     c3e_vector_zeros(singular.rows))]

\* The pass once the second c3e_matrix_qr_decomp has returned right_sg.
SvdRight(st, left_sg, right_sg) ==
    SvdTest(st, left_sg, right_sg, c3e_matrix_transpose(right_sg.b))

\* The second decomposition, of turned, the transpose of the first R.
SvdTurned(st, left_sg, turned) ==
    IF ~QrAccepts_r(turned) THEN Died
    ELSE SvdRight(st, left_sg, c3e_matrix_qr_decomp_r(turned))

\* The pass once the first c3e_matrix_qr_decomp has returned left_sg.
SvdLeft(st, left_sg) == SvdTurned(st, left_sg, c3e_matrix_transpose(left_sg.b))

\* One pass of the loop of c3e_svd_init; done is its break.
SvdPass(st) ==
    IF ~QrAccepts_r(st.singular) THEN Died
    ELSE SvdLeft(st, c3e_matrix_qr_decomp_r(st.singular))

\* What c3e_svd_init returns from the locals its loop left.
c3e_svd(st) ==
    [singular |-> c3e_matrix_diagonal(st.singular, 0),
     left |-> st.left,
     right |-> c3e_matrix_transpose(st.right)]

\* M - lambda * I, the matrix c3e_matrix_eigenvec hands to c3e_svd_init.
EigenvecOriginal(matrix, lambda) ==
    c3e_matrix_sub_r(matrix,
        c3e_matrix_scalar_mul_r(c3e_matrix_identity(matrix.rows), lambda))

\* The rest of a pass of the loop of c3e_matrix_eigenvec once c3e_svd_init
\* has returned svd: column i of eig is filled from the slice.
\* Column i of eig filled with eigenvector divided by norm.
EigenvecNormed(eig, eigenvector, norm, i) ==
    [eig EXCEPT !.data = [p \in DOMAIN eig.data |->
        IF (p - 1) % eig.cols = i
        THEN Div_r(eigenvector.data[((p - 1) \div eig.cols) + 1], norm)
        ELSE eig.data[p]]]

\* The pass once c3e_matrix_slice has returned eigenvector.
EigenvecSliced(eig, eigenvector, i) ==
    IF HasDied(eigenvector) THEN Died
    ELSE EigenvecNormed(eig, eigenvector,
                        c3e_matrix_frobenius_r(eigenvector), i)

EigenvecColumn(eig, svd, i) ==
    EigenvecSliced(eig, c3e_matrix_slice(svd.right, 2, eig.rows, 0, 3), i)

(***************************************************************************)
(* The inputs                                                              *)
(***************************************************************************)
\* The largest number of rows or columns of an input.
MaxDim == 3
\* The largest rows * cols of an input whose entries are all free.
MaxCells == 4

Dims == 1..MaxDim

Matrix(rows, cols, data) == [rows |-> rows, cols |-> cols, data |-> data]

Entries == {Num(-1), Zero, One, Num(2)}
\* Entries on both sides of the pivot tolerance 1e-10.
TinyEntries == {Zero, Rat(5, 1, -11), Rat(1, 1, -9)}

\* Every matrix of at most MaxCells entries over a set of values.
FreeMatrices(values) ==
    UNION {{Matrix(rc[1], rc[2], d) : d \in [1..(rc[1] * rc[2]) -> values]} :
        rc \in {rc \in Dims \X Dims : rc[1] * rc[2] <= MaxCells}}

\* The r x c matrix that is constant along each diagonal (Toeplitz), t[k]
\* the value of the diagonal j - i = k - r.
BandMatrix(r, c, t) ==
    Matrix(r, c, [p \in 1..(r * c) |->
        t[((p - 1) % c) - ((p - 1) \div c) + r]])

\* The matrices of zeros and ones of every shape that are constant along
\* each diagonal.
BandMatrices ==
    UNION {{BandMatrix(rc[1], rc[2], t) :
                t \in [1..(rc[1] + rc[2] - 1) -> {Zero, One}]} :
        rc \in Dims \X Dims}

\* The square matrices whose rows are the rotations of the first one.
CirculantMatrices ==
    UNION {{Matrix(n, n, [p \in 1..(n * n) |->
                t[((((p - 1) % n) - ((p - 1) \div n) + n) % n) + 1]]) :
                t \in [1..n -> Entries]} :
        n \in Dims}

\* Lower-triangular factors with a positive diagonal, and the symmetric
\* positive-definite matrices L * transpose(L) they give.
LowerFactors ==
    UNION {{BandMatrix(n, n, [k \in 1..(2 * n - 1) |->
                IF k < n THEN t[k] ELSE IF k = n THEN diag ELSE Zero]) :
                t \in [1..(n - 1) -> {Num(-1), Zero, One}],
                diag \in {One, Num(2), Num(3)}} :
        n \in Dims}

CholeskyExample ==
    Matrix(3, 3, [k \in 1..9 |->
        Num(<<4, 12, -16, 12, 37, -43, -16, -43, 98>>[k])])

PositiveDefiniteMatrices ==
    {c3e_matrix_mul(L, c3e_matrix_transpose(L)) : L \in LowerFactors}
        \cup {CholeskyExample}

\* The reflection I - 2 v v^T / (v^T v) of the integer vector v: an
\* orthogonal matrix with rational entries.
Reflection(v) ==
    LET n == Len(v)
        vv == Sum([k \in 1..n |-> Num(v[k] * v[k])])
    IN  Matrix(n, n, [p \in 1..(n * n) |->
            LET i == (p - 1) \div n + 1
                j == ((p - 1) % n) + 1
            IN  Sub(IF i = j THEN One ELSE Zero,
                    Div(Num(2 * v[i] * v[j]), vv))])

UpperFactors ==
    UNION {{BandMatrix(n, n, [k \in 1..(2 * n - 1) |->
                IF k > n THEN t[k - n] ELSE IF k = n THEN diag ELSE Zero]) :
                t \in [1..(n - 1) -> {Num(-1), Zero, One}],
                diag \in {One, Num(2)}} :
        n \in Dims}

\* Non-singular matrices Q * R whose Gram-Schmidt factors are rational.
OrthogonalizableMatrices ==
    {c3e_matrix_mul(Reflection([k \in 1..R.rows |-> IF ones THEN 1 ELSE k]), R) :
        R \in UpperFactors, ones \in BOOLEAN}

Inputs ==
    FreeMatrices(Entries) \cup FreeMatrices(TinyEntries) \cup BandMatrices
        \cup CirculantMatrices \cup PositiveDefiniteMatrices
        \cup OrthogonalizableMatrices

\* The right-hand sides of c3e_matrix_solve: the first and the last unit
\* column of n entries.
Columns(n) ==
    {Matrix(n, 1, [k \in 1..n |-> IF k = hot THEN One ELSE Zero]) : hot \in {1, n}}

(***************************************************************************)
(* The storage of a live matrix under a sequence of calls.  Here           *)
(* matrix.data is the buffer c3e_matrix_init allocated, whose length no    *)
(* call changes, and rows and cols are the two fields, which                *)
(* c3e_matrix_resize sets.  A call that reads or writes element k of       *)
(* rows * cols elements where the buffer is shorter is outside the buffer: *)
(* the behaviour is undefined, and the model lets the call crash, or read  *)
(* any value of Unknown there and write to memory that is not the          *)
(* matrix's.                                                               *)
(***************************************************************************)
\* x <= y as the C comparison.
Le(x, y) == Lt(x, y) \/ Eq(x, y)

\* c3e_swap_number on the elements a and b of arr (counted from 1).
c3e_swap_number(arr, a, b) == [arr EXCEPT ![a] = arr[b], ![b] = arr[a]]

\* The loop of c3e_parition from j on; i, j and high count from 0 as in the
\* code, arr is indexed from 1.
RECURSIVE PartitionFrom(_, _, _, _)
PartitionFrom(arr, i, j, high) ==
    IF j > high - 1
    THEN [arr |-> c3e_swap_number(arr, i + 2, high + 1), pi |-> i + 1]
    ELSE IF Le(arr[j + 1], arr[high + 1])
    THEN PartitionFrom(c3e_swap_number(arr, i + 2, j + 1), i + 1, j + 1, high)
    ELSE PartitionFrom(arr, i, j + 1, high)

c3e_parition(arr, low, high) == PartitionFrom(arr, low - 1, low, high)

RECURSIVE c3e_quick_sort(_, _, _)
c3e_quick_sort(arr, low, high) ==
    IF low < high
    THEN LET part == c3e_parition(arr, low, high)
         IN  c3e_quick_sort(c3e_quick_sort(part.arr, low, part.pi - 1),
                            part.pi + 1, high)
    ELSE arr

\* The values a read outside a buffer may find.
Unknown == {Zero, Num(2)}

\* rows * cols, the number of elements the code takes the matrix to have.
c3e_matrix_size(matrix) == matrix.rows * matrix.cols

InBounds(matrix) == c3e_matrix_size(matrix) <= Len(matrix.data)

\* What the reads past the end of the buffer find, one choice for each.
Outside(matrix) ==
    [(Len(matrix.data) + 1)..c3e_matrix_size(matrix) -> Unknown]

\* The rows * cols elements the code reads through matrix->data.
Seen(matrix, g) ==
    Matrix(matrix.rows, matrix.cols, [k \in 1..c3e_matrix_size(matrix) |->
        IF k <= Len(matrix.data) THEN matrix.data[k] ELSE g[k]])

\* The matrix once the code has written the elements seq through
\* matrix->data: what is written past the end is not in the buffer.
Written(matrix, seq) ==
    [matrix EXCEPT !.data = [k \in 1..Len(matrix.data) |->
        IF k <= Len(seq) THEN seq[k] ELSE matrix.data[k]]]

\* The loops of c3e_matrix_arg_sort from i on: sorted is the argument after
\* c3e_matrix_sort, copy the argument as it was, before what out->data[-1]
\* holds.  out[i] is the last j with sorted[i] == copy[j] that differs from
\* out[i - 1], and is left 0.0 where there is none.
RECURSIVE ArgSortFrom(_, _, _, _, _)
ArgSortFrom(out, sorted, copy, before, i) ==
    IF i >= Len(sorted) THEN out
    ELSE LET prev == IF i = 0 THEN before ELSE out[i]
             hits == {j \in 0..(Len(copy) - 1) :
                         Eq(sorted[i + 1], copy[j + 1]) /\ Neq(prev, Num(j))}
             last == CHOOSE j \in hits : \A k \in hits : k <= j
         IN  ArgSortFrom(IF hits = {} THEN out
                         ELSE [out EXCEPT ![i + 1] = Num(last)],
                         sorted, copy, before, i + 1)

\* What c3e_matrix_arg_sort returns.
c3e_matrix_arg_sort(matrix, sorted, before) ==
    LET out == c3e_matrix_init(matrix.rows, matrix.cols)
    IN  [out EXCEPT !.data = ArgSortFrom(out.data, sorted, matrix.data, before, 0)]

(***************************************************************************)
(* The operations that move elements between buffers by index:             *)
(* c3e_matrix_flatten, c3e_matrix_reshape and c3e_matrix_append.  An index *)
(* counts from 0 into data, as in the code.                                *)
(***************************************************************************)
\* The pairs <<i, j>> the loops for(i < rows) for(j < cols) go through.
Cells(rows, cols) == (0..(rows - 1)) \X (0..(cols - 1))

\* The index MATRIX_ELEM(matrix, row, col) stands for.
ElemIndex(matrix, row, col) == row * matrix.cols + col

\* The indices of indices that are not in the buffer data.
Stray(indices, data) == {k \in indices : k < 0 \/ k >= Len(data)}

\* What a read of data at index finds; g holds what the reads outside data
\* find.
ReadAt(data, index, g) ==
    IF index \in 0..(Len(data) - 1) THEN data[index + 1] ELSE g[index]

\* The loops of c3e_matrix_flatten and of c3e_matrix_reshape,
\*     MATRIX_ELEM_AT(out, i, j) = MATRIX_ELEM_AT(matrix, i, j)
\* for i < rows, j < cols: the buffer of out afterwards.  A write outside
\* the buffer is not in it.
CopiedCells(out, matrix, rows, cols, g) ==
    [k \in 1..Len(out.data) |->
        LET hits == {ij \in Cells(rows, cols) :
                        ElemIndex(out, ij[1], ij[2]) = k - 1}
            last == CHOOSE ij \in hits : \A other \in hits :
                        other[1] < ij[1] \/ (other[1] = ij[1] /\ other[2] <= ij[2])
        IN  IF hits = {} THEN out.data[k]
            ELSE ReadAt(matrix.data, ElemIndex(matrix, last[1], last[2]), g)]

\* The indices the loops write in out and read in matrix.
CopiedWrites(out, rows, cols) ==
    {ElemIndex(out, ij[1], ij[2]) : ij \in Cells(rows, cols)}

CopiedReads(matrix, rows, cols) ==
    {ElemIndex(matrix, ij[1], ij[2]) : ij \in Cells(rows, cols)}

c3e_matrix_flatten(matrix) ==
    LET out == c3e_matrix_init(1, matrix.rows * matrix.cols)
    IN  [out EXCEPT !.data =
            CopiedCells(out, matrix, matrix.rows, matrix.cols, <<>>)]

\* For rows * cols = matrix.rows * matrix.cols, the assertion of the code.
c3e_matrix_reshape(matrix, rows, cols, g) ==
    LET out == c3e_matrix_init(rows, cols)
    IN  [out EXCEPT !.data = CopiedCells(out, matrix, rows, cols, g)]

\* The indices of row row.
RowIndices(matrix, row) ==
    {ElemIndex(matrix, row, j) : j \in 0..(matrix.cols - 1)}

\* The indices c3e_matrix_append(matrix, subject, 0) writes in out: those
\* of the copy of matrix and those of the copy of subject.
AppendWrites(out, matrix, subject) ==
    {ElemIndex(out, ij[1], ij[2]) : ij \in Cells(matrix.rows, matrix.cols)}
        \cup {ElemIndex(out, ij[1], ij[2] + matrix.rows) :
                 ij \in Cells(subject.rows, subject.cols)}

(***************************************************************************)
(* The wire: net.c sends the fields of a matrix or a vector as the bytes   *)
(* they occupy in memory and reads them back with one recv() for each      *)
(* field.  Bytes are 0..255; a little-endian machine with IEEE doubles on  *)
(* both sides.  What the reader returns is kept as the bytes of its        *)
(* fields.                                                                 *)
(***************************************************************************)
\* sizeof(uint32_t), the type of rows, cols and size.
IntBytes == 4
\* sizeof(c3e_number).
ElemBytes == 8

\* The bytes of a uint32_t n < 2^31 in memory.
EncodeU32(n) ==
    <<n % 256, (n \div 256) % 256, (n \div 65536) % 256, (n \div 16777216) % 256>>

\* The bytes of the double x in memory, for the doubles the model sends.
DoubleBytes(x) ==
    CASE x = Zero -> <<0, 0, 0, 0, 0, 0, 0, 0>>
      [] x = One -> <<0, 0, 0, 0, 0, 0, 240, 63>>
      [] x = Num(-1) -> <<0, 0, 0, 0, 0, 0, 240, 191>>

\* The bytes of the first count elements of data.
ElementBytes(data, count) ==
    [b \in 1..(count * ElemBytes) |->
        DoubleBytes(data[((b - 1) \div ElemBytes) + 1])[((b - 1) % ElemBytes) + 1]]

\* What c3e_socket_send_matrix appends to the stream: three send() calls.
c3e_socket_send_matrix(stream, matrix) ==
    stream \o EncodeU32(matrix.rows) \o EncodeU32(matrix.cols)
           \o ElementBytes(matrix.data, matrix.rows * matrix.cols)

\* What c3e_socket_send_vector appends to the stream: two send() calls.
c3e_socket_send_vector(stream, vector) ==
    stream \o EncodeU32(vector.size) \o ElementBytes(vector.data, vector.size)

\* The bytes a byte of fresh malloc() memory may hold.
UnknownBytes == {0, 255}

\* c3e_socket_receive_data: recv() has delivered the first got bytes of the
\* stream into a buffer of size bytes that held fill in every byte; the
\* count recv() returned is dropped by the callers.
c3e_socket_receive_data(stream, size, got, fill) ==
    [buffer |-> [b \in 1..size |-> IF b <= got THEN stream[b] ELSE fill],
     stream |-> SubSeq(stream, got + 1, Len(stream))]

\* rows * cols as the code computes it, in uint32_t: the bytes of the
\* product of two uint32_t given by their bytes, modulo 2^32.
MulU32(a, b) ==
    LET p1 == a[1] * b[1]
        p2 == a[1] * b[2] + a[2] * b[1] + (p1 \div 256)
        p3 == a[1] * b[3] + a[2] * b[2] + a[3] * b[1] + (p2 \div 256)
        p4 == a[1] * b[4] + a[2] * b[3] + a[3] * b[2] + a[4] * b[1]
                  + (p3 \div 256)
    IN  <<p1 % 256, p2 % 256, p3 % 256, p4 % 256>>

\* The uint32_t of these bytes is more than 65535.
Large(count) == count[3] # 0 \/ count[4] # 0

\* The number of bytes count elements take, as far as it matters to a
\* recv() from a stream: that number when the stream holds as many, and
\* the length of the stream when it does not.
Wanted(count, stream) ==
    IF Large(count) \/ count[1] + 256 * count[2] > Len(stream) \div ElemBytes
    THEN Len(stream)
    ELSE (count[1] + 256 * count[2]) * ElemBytes

\* The numbers of bytes a recv() of size bytes may deliver from the stream:
\* at least one and at most size of those in flight, none when the peer
\* has sent everything and nothing is left.
Deliveries(stream, size) ==
    IF stream = <<>> \/ size = 0 THEN {0}
    ELSE 1..(IF size < Len(stream) THEN size ELSE Len(stream))

(***************************************************************************)
(* Tensors: dimensions matrices and a data vector of dimension_size        *)
(* elements.                                                               *)
(***************************************************************************)
\* For dsize # 0, dims # 0 and data->size == dsize.
c3e_tensor_init(dsize, dims, matrices, data) ==
    [dimensions |-> dims, dimension_size |-> dsize,
     matrices |-> [i \in 1..dims |-> matrices[i]], data |-> data]

c3e_vector_copy(vector) ==
    Vector(vector.size, [i \in 1..vector.size |-> vector.data[i]])

c3e_vector_equals(vector, subject) ==
    IF vector.size # subject.size THEN FALSE
    ELSE \A i \in 1..vector.size : Eq(vector.data[i], subject.data[i])

\* The matrix of 1.0 where the two elements are equal and 0.0 elsewhere.
c3e_matrix_equals(matrix, subject) ==
    IF matrix.rows # subject.rows \/ matrix.cols # subject.cols THEN Died
    ELSE LET out == c3e_matrix_init(matrix.rows, matrix.cols)
         IN  [out EXCEPT !.data = [p \in DOMAIN out.data |->
                 IF Eq(matrix.data[p], subject.data[p]) THEN One ELSE Zero]]

c3e_tensor_copy(tensor) ==
    c3e_tensor_init(tensor.dimension_size, tensor.dimensions,
        [i \in 1..tensor.dimensions |-> c3e_matrix_copy(tensor.matrices[i])],
        c3e_vector_copy(tensor.data))

\* The loop of c3e_tensor_equals from i on.  The right operand of && is
\* the pointer c3e_matrix_equals returns, which is never NULL, and is
\* evaluated only where equals is true.
RECURSIVE TensorEqualsFrom(_, _, _, _)
TensorEqualsFrom(equals, tensor, subject, i) ==
    IF i >= tensor.dimension_size THEN equals
    ELSE TensorEqualsFrom(
             equals /\ ~HasDied(c3e_matrix_equals(tensor.matrices[i + 1],
                                                  subject.matrices[i + 1])),
             tensor, subject, i + 1)

\* bool equals = false; ...; equals = equals && c3e_vector_equals(...).
c3e_tensor_equals(tensor, subject) ==
    /\ TensorEqualsFrom(FALSE, tensor, subject, 0)
    /\ c3e_vector_equals(tensor.data, subject.data)

\* The largest number of matrices and of data elements of a tensor.
MaxTensor == 2

TensorValues == {Zero, One}

\* The 1 x 1 and 1 x 2 matrices a tensor of the model is made of.
TensorMatrices ==
    {Matrix(1, 1, <<v>>) : v \in TensorValues} \cup {Matrix(1, 2, <<Zero, One>>)}

Tensors ==
    UNION {{c3e_tensor_init(dsize, dims, ms, Vector(dsize, d)) :
                ms \in [1..dims -> TensorMatrices],
                d \in [1..dsize -> TensorValues]} :
        dims \in 1..MaxTensor, dsize \in 1..MaxTensor}

(***************************************************************************)
(* The state machine: one call of one operation on an input matrix.        *)
(***************************************************************************)
VARIABLES
    matrix,         \* the argument matrix
    subject,        \* the second argument, or what is kept of the call, or None
    op,             \* the operation called, "none" before the call
    aborted,        \* the process was terminated by a failed assertion
    result,         \* what the operation returned
    assert_handler, \* the static assert_handler of assert.c
    handled,        \* the handlers invoked so far, in order
    log,            \* the calls of the assertion interface so far, in order
    frame           \* the locals of the loop the call is in, Idle outside

vars == <<matrix, subject, op, aborted, result, assert_handler, handled, log,
          frame>>

None == <<>>

\* The null pointer.
NULL == "NULL"

\* The locals of a loop that is followed pass by pass: the loop, the passes
\* made, whether the last pass left through the break, the loop's own
\* locals and those of the caller it returns to.
Frame(pc, i, done, locals, outer) ==
    [pc |-> pc, i |-> i, done |-> done, locals |-> locals, outer |-> outer]

\* No loop is running.
Idle == Frame("idle", 0, FALSE, None, None)

\* The assertion interface is left alone.
AssertUntouched == UNCHANGED <<assert_handler, handled, log>>

\* The call runs none of the loops that are followed pass by pass.
NoLoop == UNCHANGED frame

Init ==
    /\ frame = Idle
    /\ matrix \in Inputs
    /\ subject = None
    /\ op = "none"
    /\ aborted = FALSE
    /\ result = None
    /\ assert_handler = NULL
    /\ handled = <<>>
    /\ log = <<>>

\* The call returned value.
Return(name, value) ==
    /\ op' = name
    /\ aborted' = FALSE
    /\ result' = value
    /\ UNCHANGED matrix
    /\ AssertUntouched
    /\ NoLoop

\* An assert() of <assert.h> failed in the call: the process is aborted.
\* matrix.c and matrix_tuple.c include <assert.h>, not <c3e/assert.h>: the
\* handler of assert.c is not consulted.
Abort(name) ==
    /\ op' = name
    /\ aborted' = TRUE
    /\ result' = None
    /\ UNCHANGED matrix
    /\ AssertUntouched
    /\ NoLoop

RowEchelon ==
    /\ op = "none"
    /\ LET out == c3e_matrix_row_echelon(matrix)
       IN  Exact(out) /\ Return("row_echelon", out)
    /\ UNCHANGED subject

Determinant ==
    /\ op = "none"
    /\ IF matrix.rows = matrix.cols
       THEN LET det == c3e_matrix_determinant(matrix)
            IN  ~IsInexact(det) /\ Return("determinant", det)
       ELSE Abort("determinant")
    /\ UNCHANGED subject

Inverse ==
    /\ op = "none"
    /\ IF InverseAccepts(matrix)
       THEN LET out == c3e_matrix_inverse(matrix)
            IN  Exact(out) /\ Return("inverse", out)
       ELSE Abort("inverse")
    /\ UNCHANGED subject

Rank ==
    /\ op = "none"
    /\ Exact(c3e_matrix_row_echelon(matrix))
    /\ Return("rank", c3e_matrix_rank(matrix))
    /\ UNCHANGED subject

Solve ==
    /\ op = "none"
    /\ \E b \in Columns(matrix.rows) :
        /\ subject' = b
        /\ IF InverseAccepts(matrix)
           THEN LET out == c3e_matrix_solve(matrix, b)
                IN  Exact(out) /\ Return("solve", out)
           ELSE Abort("solve")

LuDecomp ==
    /\ op = "none"
    /\ IF matrix.rows = matrix.cols
       THEN LET lu == c3e_matrix_lu_decomp(matrix)
            IN  Exact(lu.a) /\ Exact(lu.b) /\ Return("lu_decomp", lu)
       ELSE Abort("lu_decomp")
    /\ UNCHANGED subject

QrDecomp ==
    /\ op = "none"
    /\ IF QrAccepts(matrix)
       THEN LET qr == c3e_matrix_qr_decomp(matrix)
            IN  Exact(qr.a) /\ Exact(qr.b) /\ Return("qr_decomp", qr)
       ELSE Abort("qr_decomp")
    /\ UNCHANGED subject

CholeskyDecomp ==
    /\ op = "none"
    /\ IF CholeskyAccepts(matrix)
       THEN LET lower == c3e_matrix_cholesky_decomp(matrix)
            IN  Exact(lower) /\ Return("cholesky_decomp", lower)
       ELSE Abort("cholesky_decomp")
    /\ UNCHANGED subject

\* c3e_matrix_tril(matrix, diag) for the offsets |diag| < rows.
Tril ==
    /\ op = "none"
    /\ IF matrix.rows = matrix.cols
       THEN \E diag \in (1 - matrix.rows)..(matrix.rows - 1) :
                /\ subject' = diag
                /\ Return("tril", c3e_matrix_tril(matrix, diag))
       ELSE Abort("tril") /\ UNCHANGED subject

Next ==
    \/ RowEchelon
    \/ Determinant
    \/ Inverse
    \/ Rank
    \/ Solve
    \/ LuDecomp
    \/ QrDecomp
    \/ CholeskyDecomp
    \/ Tril

Spec == Init /\ [][Next]_vars

(***************************************************************************)
(* Reference definitions the results are compared with                     *)
(***************************************************************************)
\* The matrix of the listed rows and columns (0-based, in the given order).
Select(m, rs, cs) ==
    Matrix(Len(rs), Len(cs), [p \in 1..(Len(rs) * Len(cs)) |->
        MATRIX_ELEM(m, rs[(p - 1) \div Len(cs) + 1], cs[((p - 1) % Len(cs)) + 1])])

Permutations(n) ==
    {f \in [1..n -> 1..n] : \A i, j \in 1..n : i # j => f[i] # f[j]}

Inversions(f) ==
    Cardinality({ij \in (DOMAIN f) \X (DOMAIN f) : ij[1] < ij[2] /\ f[ij[1]] > f[ij[2]]})

RECURSIVE ProductFrom(_, _, _)
ProductFrom(m, f, i) ==
    IF i > m.rows THEN One
    ELSE Mul(MATRIX_ELEM(m, i - 1, f[i] - 1), ProductFrom(m, f, i + 1))

RECURSIVE SumOver(_, _, _)
SumOver(m, perms, acc) ==
    IF perms = {} THEN acc
    ELSE LET f == CHOOSE g \in perms : TRUE
             term == ProductFrom(m, f, 1)
         IN  SumOver(m, perms \ {f},
                Add(acc, IF Inversions(f) % 2 = 0 THEN term ELSE Neg(term)))

\* The determinant as the signed sum over the permutations (Leibniz).
Leibniz(m) == SumOver(m, Permutations(m.rows), Zero)

\* The strictly increasing lists of k indices below n.
Increasing(k, n) ==
    {s \in [1..k -> 0..(n - 1)] : \A i \in 1..(k - 1) : s[i] < s[i + 1]}

\* The largest k for which k rows are linearly independent, which is the
\* order of the largest non-vanishing minor.
IndependentRows(m) ==
    LET orders == {k \in 1..m.rows :
            k <= m.cols /\ \E rs \in Increasing(k, m.rows), cs \in Increasing(k, m.cols) :
                Leibniz(Select(m, rs, cs)) # Zero}
    IN  IF orders = {} THEN 0 ELSE CHOOSE k \in orders : \A l \in orders : l <= k

IsZeroRow(m, i) == \A j \in 0..(m.cols - 1) : MATRIX_ELEM(m, i, j) = Zero

\* The column of the first non-zero entry of a non-zero row.
Leading(m, i) ==
    CHOOSE j \in 0..(m.cols - 1) :
        /\ MATRIX_ELEM(m, i, j) # Zero
        /\ \A l \in 0..(j - 1) : MATRIX_ELEM(m, i, l) = Zero

IsReducedRowEchelon(m) ==
    LET rows == 0..(m.rows - 1)
    IN  /\ \A i \in rows : ~IsZeroRow(m, i) =>
            /\ MATRIX_ELEM(m, i, Leading(m, i)) = One
            /\ \A k \in rows \ {i} : MATRIX_ELEM(m, k, Leading(m, i)) = Zero
        /\ \A i, k \in rows : i < k /\ ~IsZeroRow(m, k) =>
            /\ ~IsZeroRow(m, i)
            /\ Leading(m, i) < Leading(m, k)

Called(name) == op = name /\ ~aborted

\* Every entry is an integer.
IsIntegral(m) == \A p \in DOMAIN m.data : m.data[p][2] = 1 /\ m.data[p][3] >= 0

(***************************************************************************)
(* The claims                                                              *)
(***************************************************************************)
\* C1: for every matrix A that c3e_matrix_inverse accepts (square, with a
\* non-zero determinant, however small its entries), A * inverse(A) is
\* all-close to the identity.
C1_InverseTimesMatrixIsIdentity ==
    Called("inverse") =>
        c3e_matrix_all_close(c3e_matrix_mul(matrix, result),
                             c3e_matrix_identity(matrix.rows))

\* C2: the result of c3e_matrix_row_echelon is in reduced row echelon form
\* for every matrix, the rank-deficient ones included: every leading entry
\* is 1 and alone in its column, the leading entries move strictly to the
\* right going down, and the zero rows are at the bottom.  Stated for the
\* matrices of integers, whose entries are far from the pivot tolerance.
C2_RowEchelonIsReduced ==
    Called("row_echelon") /\ IsIntegral(matrix) => IsReducedRowEchelon(result)

\* C3: c3e_matrix_row_echelon applied to its own result returns that result,
\* for every matrix, entries near the pivot tolerance included.
C3_RowEchelonIdempotent ==
    Called("row_echelon") /\ Exact(c3e_matrix_row_echelon(result)) =>
        c3e_matrix_row_echelon(result) = result

\* C4: c3e_matrix_rank returns the maximum number of linearly independent
\* rows of the matrix, square or not, singular or not.
C4_RankIsIndependentRows ==
    Called("rank") => result = IndependentRows(matrix)

\* C5: the rank of the n x n identity is n and the rank of the n x n zero
\* matrix is 0, for every n >= 1.
C5_RankOfIdentityAndZeros ==
    Called("rank") /\ matrix.rows = matrix.cols =>
        /\ matrix = c3e_matrix_identity(matrix.rows) => result = matrix.rows
        /\ matrix = c3e_matrix_zeros(matrix.rows, matrix.cols) => result = 0

C5_Witness ==
    /\ Called("rank")
    /\ matrix = c3e_matrix_identity(3)
    /\ result = 3

IsFiniteMatrix(m) == \A p \in DOMAIN m.data : IsFinite(m.data[p])

IsUpperTriangular(m) ==
    \A i, j \in 0..(m.rows - 1) : i > j => MATRIX_ELEM(m, i, j) = Zero

IsLowerTriangular(m) ==
    \A i, j \in 0..(m.rows - 1) : i < j => MATRIX_ELEM(m, i, j) = Zero

HasUnitDiagonal(m) == \A i \in 0..(m.rows - 1) : MATRIX_ELEM(m, i, i) = One

\* The first k indices, in order.
Upto(k) == [i \in 1..k |-> i - 1]

\* Symmetric with positive leading principal minors (Sylvester).
IsPositiveDefinite(m) ==
    /\ m.rows = m.cols
    /\ m = c3e_matrix_transpose(m)
    /\ \A k \in 1..m.rows : Gt(Leibniz(Select(m, Upto(k), Upto(k))), Zero)

\* The indices below n other than k, in order.
Without(n, k) == [i \in 1..(n - 1) |-> IF i - 1 < k THEN i - 1 ELSE i]

\* The expansion along row 0, over the minors as Leibniz gives them.
CofactorExpansion(m) ==
    Sum([k \in 1..m.rows |->
        Mul(IF k % 2 = 1 THEN MATRIX_ELEM(m, 0, k - 1)
                         ELSE Neg(MATRIX_ELEM(m, 0, k - 1)),
            Leibniz(Select(m, Without(m.rows, 0), Without(m.rows, k - 1))))])

\* C6: c3e_matrix_determinant returns the determinant of a square matrix:
\* the entry for 1 x 1, ad - bc for 2 x 2, the cofactor expansion along row 0
\* above that; it is the Leibniz determinant, and 1 for the identity.
C6_DeterminantIsLeibniz ==
    Called("determinant") =>
        /\ result = Leibniz(matrix)
        /\ matrix.rows = 1 => result = MATRIX_ELEM(matrix, 0, 0)
        /\ matrix.rows = 2 =>
            result = Sub(Mul(MATRIX_ELEM(matrix, 0, 0), MATRIX_ELEM(matrix, 1, 1)),
                         Mul(MATRIX_ELEM(matrix, 0, 1), MATRIX_ELEM(matrix, 1, 0)))
        /\ matrix.rows > 2 => result = CofactorExpansion(matrix)
        /\ matrix = c3e_matrix_identity(matrix.rows) => result = One

C6_Witness ==
    /\ Called("determinant")
    /\ matrix.rows = 3
    /\ result # Zero
    /\ MATRIX_ELEM(matrix, 0, 1) # Zero
    /\ Leibniz(Select(matrix, <<1, 2>>, <<0, 2>>)) # Zero

\* C7: for every square matrix with a non-zero determinant,
\* c3e_matrix_lu_decomp returns a unit lower-triangular L and an
\* upper-triangular U with L * U all-close to the matrix.
C7_LuFactors ==
    Called("lu_decomp") /\ Leibniz(matrix) # Zero =>
        /\ IsLowerTriangular(result.a)
        /\ HasUnitDiagonal(result.a)
        /\ IsUpperTriangular(result.b)
        /\ c3e_matrix_all_close(c3e_matrix_mul(result.a, result.b), matrix)

CholeskyExampleFactor ==
    Matrix(3, 3, [k \in 1..9 |-> Num(<<2, 0, 0, 6, 1, 0, -8, 5, 3>>[k])])

C10_SolveIsInverseTimesSubject ==
    Called("solve") /\ Exact(c3e_matrix_mul(c3e_matrix_inverse(matrix), subject)) =>
        result.data = c3e_matrix_mul(c3e_matrix_inverse(matrix), subject).data

Handlers == {"h1", "h2"}

\* The largest number of calls of the assertion interface in a run.
MaxCalls == 3

\* The matrices of zeros and ones of at most 2 x 2 that are constant along
\* each diagonal: square and not, singular and not, symmetric and not.
SmallInputs == {m \in BandMatrices : m.rows <= 2 /\ m.cols <= 2}

InitAssert ==
    /\ frame = Idle
    /\ matrix \in SmallInputs
    /\ subject = None
    /\ op = "none"
    /\ aborted = FALSE
    /\ result = None
    /\ assert_handler = NULL
    /\ handled = <<>>
    /\ log = <<>>

Logged(name, arg) ==
    /\ Len(log) < MaxCalls
    /\ log' = Append(log, [name |-> name, arg |-> arg])

c3e_assert_has_handler == assert_handler # NULL

c3e_assert_handler ==
    /\ op = "none"
    /\ \E handler \in Handlers \cup {NULL} :
        /\ assert_handler' = handler
        /\ Logged("c3e_assert_handler", handler)
    /\ UNCHANGED <<matrix, subject, op, aborted, result, handled>>
    /\ NoLoop

\* The removal that forgets to clear the pointer.
c3e_assert_remove_handler_kept ==
    /\ op = "none"
    /\ Logged("c3e_assert_remove_handler", NULL)
    /\ UNCHANGED <<matrix, subject, op, aborted, result, handled, assert_handler>>
    /\ NoLoop

c3e_assert_remove_handler ==
    /\ op = "none"
    /\ assert_handler' = NULL
    /\ Logged("c3e_assert_remove_handler", NULL)
    /\ UNCHANGED <<matrix, subject, op, aborted, result, handled>>
    /\ NoLoop

\* c3e_assert(condition): nothing when the condition holds; otherwise the
\* handler is called and the call returns, or, without a handler, the
\* process exits with EXIT_FAILURE.
c3e_assert ==
    /\ op = "none"
    /\ \E condition \in BOOLEAN :
        /\ Logged("c3e_assert", condition)
        /\ IF condition
           THEN UNCHANGED <<op, aborted, handled>>
           ELSE IF assert_handler # NULL
                THEN /\ handled' = Append(handled, assert_handler)
                     /\ UNCHANGED <<op, aborted>>
                ELSE /\ op' = "c3e_assert"
                     /\ aborted' = TRUE
                     /\ UNCHANGED handled
    /\ UNCHANGED <<matrix, subject, result, assert_handler>>
    /\ NoLoop

NextAssert ==
    \/ c3e_assert_handler
    \/ c3e_assert_remove_handler
    \/ c3e_assert
    \/ Determinant
    \/ Inverse
    \/ LuDecomp
    \/ QrDecomp
    \/ CholeskyDecomp

SpecAssert == InitAssert /\ [][NextAssert]_vars

\* The call whose precondition the argument violates: a non-square argument
\* of the five operations, a singular one of inverse and QR, a
\* non-symmetric one of Cholesky.
PreconditionViolated ==
    \/ /\ op \in {"determinant", "inverse", "qr_decomp", "lu_decomp",
                  "cholesky_decomp"}
       /\ matrix.rows # matrix.cols
    \/ /\ op \in {"inverse", "qr_decomp"}
       /\ matrix.rows = matrix.cols
       /\ Leibniz(matrix) = Zero
    \/ /\ op = "cholesky_decomp"
       /\ matrix # c3e_matrix_transpose(matrix)

\* C14: a precondition violation in determinant, inverse, QR, LU or
\* Cholesky terminates the process only when no handler is installed: with
\* a handler installed by c3e_assert_handler, the violation calls that
\* handler and the process goes on.
C14_HandlerInterceptsViolation ==
    PreconditionViolated /\ c3e_assert_has_handler =>
        /\ ~aborted
        /\ handled # <<>>
        /\ handled[Len(handled)] = assert_handler

\* The handler the most recent install or remove call left installed.
LastInstalled ==
    LET calls == SelectSeq(log, LAMBDA c : c.name # "c3e_assert")
    IN  IF calls = <<>> THEN NULL ELSE calls[Len(calls)].arg

\* The call the step made, if it made one.
Calling(name, arg) ==
    /\ Len(log') = Len(log) + 1
    /\ log'[Len(log')] = [name |-> name, arg |-> arg]

\* C19: the assertion-handler protocol.  c3e_assert_has_handler() is true
\* exactly when the most recent install or remove call installed a non-NULL
\* handler; c3e_assert(true) changes nothing; c3e_assert(false) calls the
\* installed handler exactly once and returns, and terminates the process
\* when no handler is installed.
C19_HandlerProtocol ==
    /\ [](c3e_assert_has_handler <=> LastInstalled # NULL)
    /\ [][Calling("c3e_assert", TRUE) =>
            UNCHANGED <<matrix, subject, op, aborted, result,
                        assert_handler, handled>>]_vars
    /\ [][Calling("c3e_assert", FALSE) /\ c3e_assert_has_handler =>
            /\ handled' = Append(handled, assert_handler)
            /\ ~aborted'
            /\ UNCHANGED <<matrix, subject, op, result, assert_handler>>]_vars
    /\ [][Calling("c3e_assert", FALSE) /\ ~c3e_assert_has_handler =>
            aborted' /\ handled' = handled]_vars

C19_Witness ==
    /\ Len(log) = 3
    /\ log[1].name = "c3e_assert_handler"
    /\ log[1].arg \in Handlers
    /\ log[2] = [name |-> "c3e_assert", arg |-> FALSE]
    /\ log[3].name = "c3e_assert_remove_handler"
    /\ handled = <<log[1].arg>>
    /\ ~c3e_assert_has_handler

\* The part of a square matrix on and below the diagonal j = i + d.
LowerPart(m, d) ==
    [m EXCEPT !.data = [p \in DOMAIN m.data |->
        IF (p - 1) % m.cols <= (p - 1) \div m.cols + d
        THEN m.data[p] ELSE Zero]]

\* C18: for a square M and an offset d with |d| < n, c3e_matrix_tril(M, d)
\* keeps M[i][j] where j <= i + d and is 0 elsewhere: d = 0 keeps the main
\* diagonal and what is below it, a positive d also keeps d diagonals above,
\* a negative d keeps only what is |d| diagonals down or lower.
C18_TrilKeepsLowerPart ==
    Called("tril") => result = LowerPart(matrix, subject)

(***************************************************************************)
(* The iterations: c3e_matrix_eigenvalues, c3e_matrix_eigenvec and         *)
(* c3e_svd_init.  A call enters its loop and every pass of the loop is a   *)
(* step; nothing else runs until the call has returned or died.            *)
(***************************************************************************)
\* The matrix of the SVD test, test_svd.
SvdExample ==
    Matrix(3, 3, [k \in 1..9 |->
        Num(<<14, 0, 0, 21, 175, 0, -14, -70, 35>>[k])])

SpectralInputs ==
    {c3e_matrix_identity(n) : n \in Dims} \cup SmallInputs \cup {SvdExample}

InitSpectral ==
    /\ frame = Idle
    /\ matrix \in SpectralInputs
    /\ subject = None
    /\ op = "none"
    /\ aborted = FALSE
    /\ result = None
    /\ assert_handler = NULL
    /\ handled = <<>>
    /\ log = <<>>

\* The call returns value after i passes of its last loop, left through
\* the break or not.
Returns(value, i, done) ==
    /\ result' = value
    /\ frame' = Frame("idle", i, done, None, None)
    /\ UNCHANGED aborted

\* An assert() failed in the pass: the process is aborted where it stands.
Dies ==
    /\ aborted' = TRUE
    /\ UNCHANGED <<result, frame>>

\* The loop of c3e_matrix_eigenvec from column col on: it enters
\* c3e_svd_init for the next eigenvalue, or returns eig.
\* c3e_matrix_eigenvec enters c3e_svd_init with original.
EigenvecEnters(eig, eigenvalues, col, original) ==
    IF HasDied(original) THEN Dies
    ELSE /\ frame' = Frame("svd", 0, FALSE, SvdLocals(original),
                           [eig |-> eig, eigenvalues |-> eigenvalues,
                            col |-> col])
         /\ UNCHANGED <<result, aborted>>

EigenvecFrom(eig, eigenvalues, col, i, done) ==
    IF col >= eigenvalues.size THEN Returns(eig, i, done)
    ELSE EigenvecEnters(eig, eigenvalues, col,
             EigenvecOriginal(matrix, eigenvalues.data[col + 1]))

Eigenvalues ==
    /\ op = "none"
    /\ op' = "eigenvalues"
    /\ frame' = Frame("qr_algo", 0, FALSE,
                      [out |-> c3e_matrix_copy(matrix)], None)
    /\ UNCHANGED <<matrix, subject, aborted, result>>
    /\ AssertUntouched

Eigenvec ==
    /\ op = "none"
    /\ op' = "eigenvec"
    /\ frame' = Frame("qr_algo", 0, FALSE,
                      [out |-> c3e_matrix_copy(matrix)],
                      [eig |-> c3e_matrix_init(matrix.rows, matrix.cols)])
    /\ UNCHANGED <<matrix, subject, aborted, result>>
    /\ AssertUntouched

SvdInit ==
    /\ op = "none"
    /\ op' = "svd_init"
    /\ frame' = Frame("svd", 0, FALSE, SvdLocals(matrix), None)
    /\ UNCHANGED <<matrix, subject, aborted, result>>
    /\ AssertUntouched

\* c3e_matrix_qr_algo has left its loop after i passes and returned out:
\* c3e_matrix_eigenvalues reads eigenvalues from it.
QrAlgoLeft(eigenvalues, i, done) ==
    IF op = "eigenvalues" THEN Returns(eigenvalues, i, done)
    ELSE EigenvecFrom(frame.outer.eig, eigenvalues, 0, i, done)

\* What follows a pass of the loop of c3e_matrix_qr_algo.
QrAlgoPassed(pass) ==
    IF HasDied(pass) THEN Dies
    ELSE IF ~pass.done /\ frame.i + 1 < QrAlgoCap
    THEN /\ frame' = [frame EXCEPT !.i = @ + 1, !.locals = [out |-> pass.out]]
         /\ UNCHANGED <<result, aborted>>
    ELSE QrAlgoLeft(c3e_matrix_eigenvalues(pass.out),
                    IF pass.done THEN frame.i ELSE frame.i + 1, pass.done)

\* c3e_svd_init has left its loop after i passes and returned svd to
\* c3e_matrix_eigenvec, which has filled its column of eig.
SvdFilled(eig, i, done) ==
    IF HasDied(eig) THEN Dies
    ELSE EigenvecFrom(eig, frame.outer.eigenvalues, frame.outer.col + 1,
                      i, done)

\* c3e_svd_init has left its loop after i passes and returns svd.
SvdLeaves(svd, i, done) ==
    IF op = "svd_init" THEN Returns(svd, i, done)
    ELSE SvdFilled(EigenvecColumn(frame.outer.eig, svd, frame.outer.col),
                   i, done)

\* c3e_svd_init treating the exhausted cap as a failed assertion.
SvdPassed_asserting(pass) ==
    IF HasDied(pass) THEN Dies
    ELSE IF ~pass.done /\ frame.i + 1 < SvdCap
    THEN /\ frame' = [frame EXCEPT !.i = @ + 1,
                          !.locals = [left |-> pass.left,
                                      right |-> pass.right,
                                      singular |-> pass.singular]]
         /\ UNCHANGED <<result, aborted>>
    ELSE IF ~pass.done THEN Dies
    ELSE SvdLeaves(c3e_svd(pass), frame.i, pass.done)

\* What follows a pass of the loop of c3e_svd_init.
SvdPassed(pass) ==
    IF HasDied(pass) THEN Dies
    ELSE IF ~pass.done /\ frame.i + 1 < SvdCap
    THEN /\ frame' = [frame EXCEPT !.i = @ + 1,
                          !.locals = [left |-> pass.left,
                                      right |-> pass.right,
                                      singular |-> pass.singular]]
         /\ UNCHANGED <<result, aborted>>
    ELSE SvdLeaves(c3e_svd(pass),
                   IF pass.done THEN frame.i ELSE frame.i + 1, pass.done)

\* A pass of the loop of c3e_matrix_qr_algo and, when it is the last one,
\* the rest of c3e_matrix_eigenvalues and what its caller does next.
QrAlgoLoop ==
    /\ frame.pc = "qr_algo"
    /\ ~aborted
    /\ QrAlgoPassed(QrAlgoPass(frame.locals.out))
    /\ UNCHANGED <<matrix, subject, op>>
    /\ AssertUntouched

\* A pass of the loop of c3e_svd_init and, when it is the last one, the
\* rest of c3e_svd_init and what its caller does next.
SvdLoop ==
    /\ frame.pc = "svd"
    /\ ~aborted
    /\ SvdPassed(SvdPass(frame.locals))
    /\ UNCHANGED <<matrix, subject, op>>
    /\ AssertUntouched

NextSpectral ==
    \/ Eigenvalues
    \/ Eigenvec
    \/ SvdInit
    \/ QrAlgoLoop
    \/ SvdLoop

SpecSpectral == InitSpectral /\ [][NextSpectral]_vars

\* The call of name has returned.
Finished(name) == op = name /\ ~aborted /\ frame.pc = "idle"

Ones(n) == Vector(n, [i \in 1..n |-> One])

\* C11: for the n x n identity matrix, the 3 x 3 one included,
\* c3e_matrix_eigenvalues completes without an assertion failure, within
\* the passes its loop is capped at, and returns a vector of length n whose
\* entries are all 1.
C11_EigenvaluesOfIdentity ==
    op = "eigenvalues" /\ matrix = c3e_matrix_identity(matrix.rows) =>
        /\ ~aborted
        /\ frame.i <= QrAlgoCap
        /\ frame.pc = "idle" => result = Ones(matrix.rows)

C11_Witness ==
    /\ Finished("eigenvalues")
    /\ matrix = c3e_matrix_identity(3)
    /\ result = Ones(3)

\* The square matrix with the vector on its diagonal.
DiagonalMatrix(vector) ==
    Matrix(vector.size, vector.size, [p \in 1..(vector.size * vector.size) |->
        IF (p - 1) \div vector.size = (p - 1) % vector.size
        THEN vector.data[((p - 1) % vector.size) + 1]
        ELSE Zero])

\* C12: for A = [[14,0,0],[21,175,0],[-14,-70,35]] c3e_svd_init leaves its
\* loop through the convergence test before the cap of 100 passes is
\* exhausted, and left * diag(singular) * transpose(right) of what it
\* returns is all-close to A.
C12_SvdConvergesAndReconstructs ==
    Finished("svd_init") /\ matrix = SvdExample =>
        /\ frame.done
        /\ frame.i < SvdCap
        /\ c3e_matrix_all_close_r(
               c3e_matrix_mul_r(
                   c3e_matrix_mul_r(result.left, DiagonalMatrix(result.singular)),
                   c3e_matrix_transpose(result.right)),
               matrix)

\* C17: for every square matrix for which c3e_matrix_eigenvalues completes,
\* the identity included, c3e_matrix_eigenvec completes without an
\* assertion failure and returns an n x n matrix.  The call of
\* c3e_matrix_eigenvalues inside c3e_matrix_eigenvec has completed once the
\* call is past the loop of c3e_matrix_qr_algo.
C17_EigenvecCompletes ==
    op = "eigenvec" /\ matrix.rows = matrix.cols /\ frame.pc # "qr_algo" =>
        /\ ~aborted
        /\ frame.pc = "idle" =>
               result.rows = matrix.rows /\ result.cols = matrix.rows

(***************************************************************************)
(* Sequences of calls on a live matrix and its buffer.                     *)
(***************************************************************************)
StoreValues == {Zero, One}

StoreInputs == FreeMatrices(StoreValues)

InitStore ==
    /\ frame = Idle
    /\ matrix \in StoreInputs
    /\ subject = None
    /\ op = "none"
    /\ aborted = FALSE
    /\ result = None
    /\ assert_handler = NULL
    /\ handled = <<>>
    /\ log = <<>>

\* The call of name on the live matrix leaves it as after and returns
\* value; subject keeps the argument as the call found it.
Stored(name, after, value) ==
    /\ op' = name
    /\ matrix' = after
    /\ result' = value
    /\ subject' = [matrix |-> matrix]
    /\ aborted' = FALSE
    /\ AssertUntouched
    /\ NoLoop

\* The call went outside the buffer and the process was terminated.
Crashed(name) ==
    /\ ~InBounds(matrix)
    /\ op' = name
    /\ aborted' = TRUE
    /\ result' = None
    /\ subject' = [matrix |-> matrix]
    /\ UNCHANGED matrix
    /\ AssertUntouched
    /\ NoLoop

Copy ==
    /\ ~aborted
    /\ \/ \E g \in Outside(matrix) :
            Stored("copy", matrix, c3e_matrix_copy(Seen(matrix, g)))
       \/ Crashed("copy")

Transpose ==
    /\ ~aborted
    /\ \/ \E g \in Outside(matrix) :
            Stored("transpose", matrix, c3e_matrix_transpose(Seen(matrix, g)))
       \/ Crashed("transpose")

SetElements ==
    /\ ~aborted
    /\ \/ \E values \in [1..c3e_matrix_size(matrix) -> StoreValues] :
            Stored("set_elements", Written(matrix, values), None)
       \/ Crashed("set_elements")

Fill ==
    /\ ~aborted
    /\ \/ \E value \in StoreValues :
            Stored("fill",
                   Written(matrix, [k \in 1..c3e_matrix_size(matrix) |-> value]),
                   None)
       \/ Crashed("fill")

SwapRows ==
    /\ ~aborted
    /\ \/ \E g \in Outside(matrix), row1, row2 \in 0..(matrix.rows - 1) :
            Stored("swap_rows",
                   Written(matrix,
                       c3e_matrix_swap_rows(Seen(matrix, g), row1, row2).data),
                   None)
       \/ Crashed("swap_rows")

Sort ==
    /\ ~aborted
    /\ \/ \E g \in Outside(matrix) :
            Stored("sort",
                   Written(matrix, c3e_quick_sort(Seen(matrix, g).data, 0,
                                       c3e_matrix_size(matrix) - 1)),
                   None)
       \/ Crashed("sort")

\* c3e_matrix_arg_sort sorts its argument with c3e_matrix_sort and reads
\* out->data[-1], the element before its zeroed buffer, in its first pass.
ArgSort ==
    /\ ~aborted
    /\ \/ \E g \in Outside(matrix), before \in Unknown :
            LET copy == c3e_matrix_copy(Seen(matrix, g))
                sorted == c3e_quick_sort(copy.data, 0,
                              c3e_matrix_size(matrix) - 1)
            IN  Stored("arg_sort", Written(matrix, sorted),
                       c3e_matrix_arg_sort(copy, sorted, before))
       \/ Crashed("arg_sort")

Resize ==
    /\ ~aborted
    /\ \E rows \in Dims, cols \in Dims :
        /\ rows * cols <= MaxCells
        /\ Stored("resize",
                  [matrix EXCEPT !.rows = rows, !.cols = cols], None)

ResizeAs ==
    /\ ~aborted
    /\ \E other \in StoreInputs :
        Stored("resize_as",
               [matrix EXCEPT !.rows = other.rows, !.cols = other.cols], None)

NextStore ==
    \/ Copy
    \/ Transpose
    \/ SetElements
    \/ Fill
    \/ SwapRows
    \/ Sort
    \/ ArgSort
    \/ Resize
    \/ ResizeAs

SpecStore == InitStore /\ [][NextStore]_vars

\* C15: an operation that returns a newly allocated matrix (copy,
\* transpose, arg_sort) leaves the rows, the cols and every element of its
\* argument as the call found them; only the in-place primitives and the
\* setters change their argument.
C15_NewValueLeavesArgument ==
    op \in {"copy", "transpose", "arg_sort"} /\ ~aborted =>
        matrix = subject.matrix

\* C16: after any sequence of calls the buffer of the live matrix holds
\* rows * cols elements.
C16_BufferHoldsRowsTimesCols ==
    Len(matrix.data) = matrix.rows * matrix.cols

(***************************************************************************)
(* Tensors compared: matrix is the tensor, subject the tensor it is        *)
(* compared with.                                                          *)
(***************************************************************************)
InitTensor ==
    /\ frame = Idle
    /\ matrix \in Tensors
    /\ subject = None
    /\ op = "none"
    /\ aborted = FALSE
    /\ result = None
    /\ assert_handler = NULL
    /\ handled = <<>>
    /\ log = <<>>

TensorCopy ==
    /\ op = "none"
    /\ Return("tensor_copy", c3e_tensor_copy(matrix))
    /\ UNCHANGED subject

\* c3e_tensor_equals(tensor, subject), subject the copy just made or any
\* tensor.
TensorEquals ==
    \/ /\ op = "tensor_copy"
       /\ subject' = result
       /\ Return("tensor_equals", c3e_tensor_equals(matrix, result))
    \/ /\ op = "none"
       /\ \E other \in Tensors :
            /\ subject' = other
            /\ Return("tensor_equals", c3e_tensor_equals(matrix, other))

NextTensor ==
    \/ TensorCopy
    \/ TensorEquals

SpecTensor == InitTensor /\ [][NextTensor]_vars

\* The two tensors have the same dimensions and some element of a matrix
\* or of the data vector differs.
SomeElementDiffers(t, s) ==
    /\ t.dimensions = s.dimensions
    /\ t.dimension_size = s.dimension_size
    /\ \A i \in 1..t.dimensions :
        /\ t.matrices[i].rows = s.matrices[i].rows
        /\ t.matrices[i].cols = s.matrices[i].cols
    /\ t # s

\* C20: c3e_tensor_equals(t, s) returns true whenever t and s have the same
\* dimensions and element-wise equal matrices and data vector, as for
\* s = c3e_tensor_copy(t), and false when some element differs.
C20_TensorEquals ==
    op = "tensor_equals" =>
        /\ matrix = subject => result = TRUE
        /\ SomeElementDiffers(matrix, subject) => result = FALSE

(***************************************************************************)
(* One call of an operation that moves elements by index, with the         *)
(* indices it read and wrote.                                              *)
(***************************************************************************)
\* The matrices 1, 2, 3, ... of every shape: no two elements are equal.
CountingMatrices ==
    {Matrix(rc[1], rc[2], [k \in 1..(rc[1] * rc[2]) |-> Num(k)]) :
        rc \in Dims \X Dims}

\* Matrices whose entries lie on both sides of the pivot tolerance and on
\* it.
PivotEntries ==
    {Zero, Rat(1, 1, -10), Rat(-1, 1, -10), Rat(-1, 1, -9), Num(2)}

PivotInputs == FreeMatrices(PivotEntries)

ShapeInputs == FreeMatrices(Entries) \cup CountingMatrices \cup PivotInputs

InitShape ==
    /\ frame = Idle
    /\ matrix \in ShapeInputs
    /\ subject = None
    /\ op = "none"
    /\ aborted = FALSE
    /\ result = None
    /\ assert_handler = NULL
    /\ handled = <<>>
    /\ log = <<>>

\* The call of name with the further arguments args returned value and
\* left the argument as after; reads and writes are the indices it read in
\* the buffer of the argument and wrote in the buffer it names in the
\* code.  subject keeps them with the argument as the call found it.
Accessed(name, args, after, value, reads, writes) ==
    /\ op' = name
    /\ matrix' = after
    /\ result' = value
    /\ subject' = [matrix |-> matrix, args |-> args,
                   reads |-> reads, writes |-> writes]
    /\ aborted' = FALSE
    /\ AssertUntouched
    /\ NoLoop

\* The process was terminated in the call: by a failed assert() before any
\* access, or by the system at an access outside a buffer.
Terminated(name, args, reads, writes) ==
    /\ op' = name
    /\ aborted' = TRUE
    /\ result' = None
    /\ subject' = [matrix |-> matrix, args |-> args,
                   reads |-> reads, writes |-> writes]
    /\ UNCHANGED matrix
    /\ AssertUntouched
    /\ NoLoop

Flatten ==
    /\ op = "none"
    /\ LET out == c3e_matrix_flatten(matrix)
           reads == CopiedReads(matrix, matrix.rows, matrix.cols)
           writes == CopiedWrites(out, matrix.rows, matrix.cols)
       IN  \/ Accessed("flatten", None, matrix, out, reads, writes)
           \/ /\ Stray(writes, out.data) # {}
              /\ Terminated("flatten", None, reads, writes)

Reshape ==
    /\ op = "none"
    /\ \E rows \in 1..(MaxDim * MaxDim), cols \in 1..(MaxDim * MaxDim) :
        LET args == [rows |-> rows, cols |-> cols]
            reads == CopiedReads(matrix, rows, cols)
        IN  IF matrix.rows * matrix.cols = rows * cols
            THEN \/ \E g \in [Stray(reads, matrix.data) -> Unknown] :
                        Accessed("reshape", args, matrix,
                               c3e_matrix_reshape(matrix, rows, cols, g),
                               reads, 0..(rows * cols - 1))
                 \/ /\ Stray(reads, matrix.data) # {}
                    /\ Terminated("reshape", args, reads, {})
            ELSE Terminated("reshape", args, {}, {})

\* c3e_matrix_find_pivot(matrix, col, row) for a column of the matrix and
\* a row from 0 to rows, the last one past the matrix.
FindPivot ==
    /\ op = "none"
    /\ \E col \in 0..(matrix.cols - 1), row \in 0..matrix.rows :
        Accessed("find_pivot", [col |-> col, row |-> row], matrix,
                 c3e_matrix_find_pivot(matrix, col, row),
                 {ElemIndex(matrix, i, col) : i \in row..(matrix.rows - 1)}, {})

SwapTwoRows ==
    /\ op = "none"
    /\ \E row1, row2 \in 0..(matrix.rows - 1) :
        Accessed("swap_rows", [row1 |-> row1, row2 |-> row2],
                 c3e_matrix_swap_rows(matrix, row1, row2), None,
                 IF row1 = row2 THEN {}
                 ELSE RowIndices(matrix, row1) \cup RowIndices(matrix, row2),
                 IF row1 = row2 THEN {}
                 ELSE RowIndices(matrix, row1) \cup RowIndices(matrix, row2))

\* The same call once more: subject keeps the matrix of before the first.
SwapBack ==
    /\ op = "swap_rows"
    /\ op' = "swap_rows_twice"
    /\ matrix' = c3e_matrix_swap_rows(matrix, subject.args.row1,
                                      subject.args.row2)
    /\ UNCHANGED <<subject, result, aborted>>
    /\ AssertUntouched
    /\ NoLoop

MultiplyRow ==
    /\ op = "none"
    /\ \E row \in 0..(matrix.rows - 1), x \in Entries :
        Accessed("multiply_row", [row |-> row, x |-> x],
                 c3e_matrix_multiply_row(matrix, row, x), None,
                 RowIndices(matrix, row), RowIndices(matrix, row))

AddRow ==
    /\ op = "none"
    /\ \E row1, row2 \in 0..(matrix.rows - 1), scalar \in Entries :
        Accessed("add_row",
                 [row1 |-> row1, row2 |-> row2, scalar |-> scalar],
                 c3e_matrix_add_row(matrix, row1, row2, scalar), None,
                 RowIndices(matrix, row1) \cup RowIndices(matrix, row2),
                 RowIndices(matrix, row1))

\* c3e_matrix_append(matrix, other, 0).
AppendColumns ==
    /\ op = "none"
    /\ \E other \in CountingMatrices :
        IF matrix.rows = other.rows
        THEN LET out == c3e_matrix_append(matrix, other)
                 writes == AppendWrites(out, matrix, other)
             IN  \/ Accessed("append", other, matrix, out, {}, writes)
                 \/ /\ Stray(writes, out.data) # {}
                    /\ Terminated("append", other, {}, writes)
        ELSE Terminated("append", other, {}, {})

NextShape ==
    \/ Flatten
    \/ Reshape
    \/ FindPivot
    \/ SwapTwoRows
    \/ SwapBack
    \/ MultiplyRow
    \/ AddRow
    \/ AppendColumns

SpecShape == InitShape /\ [][NextShape]_vars

\* C21: c3e_matrix_flatten(M) of an r x c matrix returns the 1 x (r * c)
\* matrix F with F[0][i * c + j] = M[i][j], and every write it performs is
\* inside the buffer of F.
C21_FlattenStacksRows ==
    op = "flatten" =>
        /\ Stray(subject.writes, [k \in 1..(matrix.rows * matrix.cols) |-> 0]) = {}
        /\ ~aborted
        /\ result.rows = 1
        /\ result.cols = matrix.rows * matrix.cols
        /\ \A ij \in Cells(matrix.rows, matrix.cols) :
              MATRIX_ELEM(result, 0, ij[1] * matrix.cols + ij[2])
                  = MATRIX_ELEM(matrix, ij[1], ij[2])

\* C30: c3e_matrix_reshape(M, rows, cols) with rows * cols = M.rows * M.cols
\* returns a matrix with the row-major elements of M and reads only inside
\* the buffer of M; any other shape fails the assertion.
C30_ReshapeKeepsSequence ==
    op = "reshape" =>
        IF subject.args.rows * subject.args.cols = matrix.rows * matrix.cols
        THEN /\ Stray(subject.reads, matrix.data) = {}
             /\ ~aborted
             /\ result.rows = subject.args.rows
             /\ result.cols = subject.args.cols
             /\ result.data = matrix.data
        ELSE aborted

\* The rows from row on whose entry in column col is adequate as a pivot.
Adequate(m, col, row) ==
    {i \in row..(m.rows - 1) : Gt(Fabs(MATRIX_ELEM(m, i, col)), PivotTol)}

\* C26: c3e_matrix_find_pivot(m, col, row) returns the smallest i with
\* row <= i < m.rows and |m[i][col]| > 1e-10, the first adequate entry and
\* not the largest; it returns -1 when there is none, and it does not
\* modify m.
C26_FindPivotIsFirstAdequate ==
    op = "find_pivot" =>
        LET adequate == Adequate(matrix, subject.args.col, subject.args.row)
        IN  /\ ~aborted
            /\ matrix = subject.matrix
            /\ IF adequate = {} THEN result = -1
               ELSE /\ result \in adequate
                    /\ \A i \in adequate : result <= i

\* A pivot was found that is the first adequate entry and smaller in
\* magnitude than a later one, after an entry of exactly 1e-10 was passed
\* over.
C26_Witness ==
    /\ op = "find_pivot"
    /\ result >= subject.args.row + 1
    /\ Eq(Fabs(MATRIX_ELEM(matrix, subject.args.row, subject.args.col)), PivotTol)
    /\ \E i \in Adequate(matrix, subject.args.col, subject.args.row) :
          Gt(Fabs(MATRIX_ELEM(matrix, i, subject.args.col)),
             Fabs(MATRIX_ELEM(matrix, result, subject.args.col)))

\* Row i of m, its columns counted from 1.
RowOf(m, i) == [j \in 1..m.cols |-> MATRIX_ELEM(m, i, j - 1)]

\* Every row of m but those of rows is what it was before the call.
OtherRowsKept(m, rows) ==
    \A i \in (0..(m.rows - 1)) \ rows : RowOf(m, i) = RowOf(subject.matrix, i)

\* C27: the row primitives change only the rows they name and neither rows
\* nor cols.  c3e_matrix_swap_rows exchanges rows r1 and r2 (nothing when
\* r1 = r2) and applied twice restores m; c3e_matrix_multiply_row
\* multiplies row r by x; c3e_matrix_add_row with r1 # r2 replaces row r1
\* by row r1 + s * row r2.
C27_RowPrimitivesFrame ==
    op \in {"swap_rows", "swap_rows_twice", "multiply_row", "add_row"} =>
        LET old == subject.matrix
            a == subject.args
        IN  /\ ~aborted
            /\ matrix.rows = old.rows
            /\ matrix.cols = old.cols
            /\ Len(matrix.data) = Len(old.data)
            /\ op = "swap_rows" =>
                  /\ RowOf(matrix, a.row1) = RowOf(old, a.row2)
                  /\ RowOf(matrix, a.row2) = RowOf(old, a.row1)
                  /\ OtherRowsKept(matrix, {a.row1, a.row2})
            /\ op = "swap_rows_twice" => matrix = old
            /\ op = "multiply_row" =>
                  /\ RowOf(matrix, a.row) =
                        [j \in 1..old.cols |-> Mul(RowOf(old, a.row)[j], a.x)]
                  /\ OtherRowsKept(matrix, {a.row})
            /\ (op = "add_row" /\ a.row1 # a.row2) =>
                  /\ RowOf(matrix, a.row1) =
                        [j \in 1..old.cols |->
                            Add(RowOf(old, a.row1)[j],
                                Mul(a.scalar, RowOf(old, a.row2)[j]))]
                  /\ OtherRowsKept(matrix, {a.row1})

\* Two rows that differ were swapped and swapped back.
C27_Witness ==
    /\ op = "swap_rows_twice"
    /\ subject.args.row1 # subject.args.row2
    /\ RowOf(matrix, subject.args.row1) # RowOf(matrix, subject.args.row2)
    /\ matrix.rows = 3

\* C28: c3e_matrix_append(M, S, 0) of an r x c matrix M and an r x k matrix
\* S, M square or not, returns the r x (c + k) matrix [M | S].
C28_AppendAugments ==
    (op = "append" /\ matrix.rows = subject.args.rows) =>
        /\ ~aborted
        /\ result.rows = matrix.rows
        /\ result.cols = matrix.cols + subject.args.cols
        /\ \A ij \in Cells(matrix.rows, matrix.cols) :
              MATRIX_ELEM(result, ij[1], ij[2]) = MATRIX_ELEM(matrix, ij[1], ij[2])
        /\ \A ij \in Cells(subject.args.rows, subject.args.cols) :
              MATRIX_ELEM(result, ij[1], matrix.cols + ij[2])
                  = MATRIX_ELEM(subject.args, ij[1], ij[2])

(***************************************************************************)
(* The iterations again: where the loops stop.                             *)
(***************************************************************************)
\* The entries of m strictly below its main diagonal.
StrictlyLower(m) ==
    {MATRIX_ELEM(m, ij[1], ij[2]) :
        ij \in {ij \in Cells(m.rows, m.cols) : ij[2] < ij[1]}}

\* m is upper-triangular with no zero on its diagonal.
UpperWithDiagonal(m) ==
    /\ m.rows = m.cols
    /\ \A x \in StrictlyLower(m) : x = Zero
    /\ \A i \in 0..(m.rows - 1) : MATRIX_ELEM(m, i, i) # Zero

\* C24: c3e_matrix_qr_algo stops at the end of the first pass after which
\* every entry strictly below the main diagonal of the iterate is below
\* 1e-10 in magnitude, the entries on and above the diagonal playing no
\* part: the loop goes on only from an iterate with such an entry of
\* 1e-10 or more, and for an upper-triangular input with a non-zero
\* diagonal, the identity for one, it makes exactly one pass.
C24_QrAlgoStopsOnLowerPart ==
    op = "eigenvalues" /\ ~aborted =>
        /\ (frame.pc = "qr_algo" /\ frame.i >= 1) =>
              \E x \in StrictlyLower(frame.locals.out) :
                  ~Lt(Fabs(x), QrAlgoTol)
        /\ (frame.pc = "idle" /\ UpperWithDiagonal(matrix)) =>
              frame.done /\ frame.i = 0

\* The preconditions of the iterations: square and non-singular.
Iterable(m) ==
    m.rows = m.cols /\ c3e_matrix_determinant(m) # Zero

\* An ordinary result of the call: the vector of c3e_matrix_eigenvalues or
\* the three fields of c3e_svd, and nothing that tells how the loop ended.
Ordinary(value) ==
    IF op = "eigenvalues"
    THEN /\ DOMAIN value = {"size", "data"}
         /\ value.size = matrix.rows
         /\ Len(value.data) = matrix.rows
    ELSE /\ DOMAIN value = {"singular", "left", "right"}
         /\ value.singular.size = matrix.rows
         /\ value.left.rows = matrix.rows
         /\ value.right.rows = matrix.rows

\* The cap of the loop the call runs.
CapOf(name) == IF name = "eigenvalues" THEN QrAlgoCap ELSE SvdCap

\* The call has not failed an assertion; in its loop it has made fewer
\* passes than the cap; once returned, it has made at most as many as the
\* cap and returned an ordinary result.
WithinCap ==
    (op \in {"eigenvalues", "svd_init"} /\ Iterable(matrix)) =>
        /\ ~aborted
        /\ frame.pc # "idle" => frame.i < CapOf(op)
        /\ frame.pc = "idle" => frame.i <= CapOf(op) /\ Ordinary(result)

\* A step of a call in its loop is one more pass of the loop or the return
\* of the call.
PassOrReturn ==
    (op \in {"eigenvalues", "svd_init"} /\ Iterable(matrix)
            /\ frame.pc # "idle") =>
        \/ frame'.pc = frame.pc /\ frame'.i = frame.i + 1
        \/ frame'.pc = "idle" /\ ~aborted'

\* C25: for every square non-singular input c3e_matrix_qr_algo makes at
\* most 500 and c3e_svd_init at most 100 passes and then returns the
\* current iterate as an ordinary result: at the cap no assertion fails
\* and no error value is produced.
C25_CapReturnsOrdinary == []WithinCap /\ [][PassOrReturn]_vars

\* c3e_svd_init returned after the 100 passes of its cap without having
\* taken its break.
C25_Witness ==
    /\ Finished("svd_init")
    /\ Iterable(matrix)
    /\ ~frame.done
    /\ frame.i = SvdCap

(***************************************************************************)
(* One message on the wire: a peer sends a matrix or a vector, the other   *)
(* reads it.  subject holds the bytes in flight, frame the field the       *)
(* reader is at and the fields it has read, result what it returns.        *)
(***************************************************************************)
\* The doubles on the wire.
WireValues == {Zero, One, Num(-1)}

WireMatrices == FreeMatrices(WireValues)

WireVectors ==
    UNION {{Vector(n, d) : d \in [1..n -> WireValues]} : n \in 1..MaxCells}

InitWire ==
    /\ frame = Idle
    /\ matrix \in WireMatrices \cup WireVectors
    /\ subject = None
    /\ op = "none"
    /\ aborted = FALSE
    /\ result = None
    /\ assert_handler = NULL
    /\ handled = <<>>
    /\ log = <<>>

SendMatrix ==
    /\ op = "none"
    /\ "rows" \in DOMAIN matrix
    /\ op' = "send_matrix"
    /\ subject' = [stream |-> c3e_socket_send_matrix(<<>>, matrix)]
    /\ UNCHANGED <<matrix, aborted, result, frame>>
    /\ AssertUntouched

SendVector ==
    /\ op = "none"
    /\ "size" \in DOMAIN matrix
    /\ op' = "send_vector"
    /\ subject' = [stream |-> c3e_socket_send_vector(<<>>, matrix)]
    /\ UNCHANGED <<matrix, aborted, result, frame>>
    /\ AssertUntouched

\* The reader has received a field into its struct and goes on to the
\* field next.
FieldRead(received, next, locals) ==
    /\ frame' = Frame(next, 0, FALSE, locals, None)
    /\ subject' = [stream |-> received.stream]
    /\ UNCHANGED <<matrix, op, aborted, result>>
    /\ AssertUntouched

\* The reader has received the elements and returns value.
MessageRead(name, received, value) ==
    /\ op' = name
    /\ result' = value
    /\ frame' = Idle
    /\ subject' = [stream |-> received.stream]
    /\ UNCHANGED <<matrix, aborted>>
    /\ AssertUntouched

\* malloc() returned NULL for the elements and the assert of
\* c3e_socket_receive_data failed.
ReadDies(name) ==
    /\ op' = name
    /\ aborted' = TRUE
    /\ UNCHANGED <<matrix, subject, result, frame>>
    /\ AssertUntouched

\* c3e_socket_matrix_read: the recv() of rows.
MatrixReadRows ==
    /\ op = "send_matrix"
    /\ frame.pc = "idle"
    /\ \E got \in Deliveries(subject.stream, IntBytes), fill \in UnknownBytes :
        FieldRead(c3e_socket_receive_data(subject.stream, IntBytes, got, fill),
                  "cols",
                  [rows |-> c3e_socket_receive_data(
                                subject.stream, IntBytes, got, fill).buffer])

\* c3e_socket_matrix_read: the recv() of cols.
MatrixReadCols ==
    /\ frame.pc = "cols"
    /\ \E got \in Deliveries(subject.stream, IntBytes), fill \in UnknownBytes :
        FieldRead(c3e_socket_receive_data(subject.stream, IntBytes, got, fill),
                  "data",
                  [rows |-> frame.locals.rows,
                   cols |-> c3e_socket_receive_data(
                                subject.stream, IntBytes, got, fill).buffer])

\* The malloc() and the recv() of the elements, count of them.
ElementsRead(name, fields, count, size) ==
    \/ \E got \in Deliveries(subject.stream, size), fill \in UnknownBytes :
          MessageRead(name,
              c3e_socket_receive_data(subject.stream, size, got, fill),
              [f \in DOMAIN fields \cup {"data"} |->
                  IF f = "data"
                  THEN c3e_socket_receive_data(subject.stream, size, got,
                                               fill).buffer
                  ELSE fields[f]])
    \/ /\ Large(count) \/ count = EncodeU32(0)
       /\ ReadDies(name)

\* c3e_socket_matrix_read: the malloc() and the recv() of the elements.
MatrixReadData ==
    /\ frame.pc = "data"
    /\ ~aborted
    /\ ElementsRead("matrix_read", frame.locals,
                    MulU32(frame.locals.rows, frame.locals.cols),
                    Wanted(MulU32(frame.locals.rows, frame.locals.cols),
                           subject.stream))

\* c3e_socket_vector_read: the recv() of size.
VectorReadSize ==
    /\ op = "send_vector"
    /\ frame.pc = "idle"
    /\ \E got \in Deliveries(subject.stream, IntBytes), fill \in UnknownBytes :
        FieldRead(c3e_socket_receive_data(subject.stream, IntBytes, got, fill),
                  "vector_data",
                  [size |-> c3e_socket_receive_data(
                                subject.stream, IntBytes, got, fill).buffer])

\* c3e_socket_vector_read: the malloc() and the recv() of the elements.
VectorReadData ==
    /\ frame.pc = "vector_data"
    /\ ~aborted
    /\ ElementsRead("vector_read", frame.locals, frame.locals.size,
                    Wanted(frame.locals.size, subject.stream))

NextWire ==
    \/ SendMatrix
    \/ SendVector
    \/ MatrixReadRows
    \/ MatrixReadCols
    \/ MatrixReadData
    \/ VectorReadSize
    \/ VectorReadData

SpecWire == InitWire /\ [][NextWire]_vars

\* C23: the bytes a sender puts on the stream are rows, cols and the
\* rows * cols elements in row-major order (size and the size elements for
\* a vector), and what the reader returns from that stream has the rows,
\* cols and elements of the matrix sent (the size and elements of the
\* vector), however the transport has split the bytes across the recv()
\* calls.
C23_WireRoundTrip ==
    /\ (op = "send_matrix" /\ frame.pc = "idle") =>
          subject.stream = EncodeU32(matrix.rows) \o EncodeU32(matrix.cols)
              \o ElementBytes(matrix.data, Len(matrix.data))
    /\ (op = "send_vector" /\ frame.pc = "idle") =>
          subject.stream = EncodeU32(matrix.size)
              \o ElementBytes(matrix.data, Len(matrix.data))
    /\ op = "matrix_read" =>
          /\ ~aborted
          /\ result.rows = EncodeU32(matrix.rows)
          /\ result.cols = EncodeU32(matrix.cols)
          /\ result.data = ElementBytes(matrix.data, Len(matrix.data))
    /\ op = "vector_read" =>
          /\ ~aborted
          /\ result.size = EncodeU32(matrix.size)
          /\ result.data = ElementBytes(matrix.data, Len(matrix.data))


(***************************************************************************)
(* The tensor pool: one buffer of size bytes handed out from the front.    *)
(* The fields memory and size and the request are size_t, arithmetic on    *)
(* them is modulo 2^WordBits.  subject holds the pool, the pool as it was  *)
(* before the last call, and the blocks returned since the last reset:     *)
(* where each starts as an offset into data, the bytes asked for, and the  *)
(* value of memory when it was asked for.  result is what the last call    *)
(* returned: NULL (null), or an offset into data (ptr).                    *)
(***************************************************************************)
WordBits == 6

WordMod == 2 ^ WordBits

\* The capacities of the pools created and the number of blocks followed.
MaxPool == 24

MaxBlocks == 3

\* (size + 8 - 1) & ~7 on size_t.
RoundedUp(size) ==
    ((size + 8 - 1) % WordMod) - (((size + 8 - 1) % WordMod) % 8)

\* c3e_tensor_pool_create(size), both malloc() having succeeded.
c3e_tensor_pool_create(size) ==
    [size |-> size, memory |-> 0, allocs |-> 0]

\* c3e_tensor_pool_alloc(pool, size, &id) for size # 0: the pool after the
\* call, whether it returned NULL, and otherwise the pointer returned as an
\* offset into pool->data.
c3e_tensor_pool_alloc(pool, size) ==
    IF (pool.memory + RoundedUp(size)) % WordMod > pool.size
    THEN [pool |-> pool, null |-> TRUE, ptr |-> 0]
    ELSE [pool |-> [pool EXCEPT
                       !.memory = (pool.memory + RoundedUp(size)) % WordMod,
                       !.allocs = pool.allocs + 1],
          null |-> FALSE,
          ptr |-> pool.memory]

\* c3e_tensor_pool_reset(pool).
c3e_tensor_pool_reset(pool) ==
    [pool EXCEPT !.memory = 0, !.allocs = 0]

InitPool ==
    /\ frame = Idle
    /\ matrix = None
    /\ \E size \in 1..MaxPool :
        subject = [pool |-> c3e_tensor_pool_create(size),
                   before |-> c3e_tensor_pool_create(size),
                   blocks |-> <<>>]
    /\ op = "none"
    /\ aborted = FALSE
    /\ result = None
    /\ assert_handler = NULL
    /\ handled = <<>>
    /\ log = <<>>

\* The pool after a call that returned ptr for a request of size bytes.
Allocated(out, size) ==
    [pool |-> out.pool,
     before |-> subject.pool,
     blocks |-> IF out.null
                THEN subject.blocks
                ELSE subject.blocks \o
                         <<[at |-> out.ptr, size |-> size,
                            memory |-> subject.pool.memory]>>]

PoolAlloc ==
    /\ ~aborted
    /\ Len(subject.blocks) < MaxBlocks
    /\ \E size \in 1..(WordMod - 1) :
        /\ subject' = Allocated(c3e_tensor_pool_alloc(subject.pool, size), size)
        /\ result' = [null |-> c3e_tensor_pool_alloc(subject.pool, size).null,
                      ptr |-> c3e_tensor_pool_alloc(subject.pool, size).ptr]
    /\ op' = "pool_alloc"
    /\ UNCHANGED <<matrix, aborted, frame>>
    /\ AssertUntouched

\* assert(size) fails for a request of no bytes.
PoolAllocNothing ==
    /\ ~aborted
    /\ op' = "pool_alloc"
    /\ aborted' = TRUE
    /\ UNCHANGED <<matrix, subject, result, frame>>
    /\ AssertUntouched

PoolReset ==
    /\ ~aborted
    /\ op' = "pool_reset"
    /\ subject' = [pool |-> c3e_tensor_pool_reset(subject.pool),
                   before |-> subject.pool,
                   blocks |-> <<>>]
    /\ result' = None
    /\ UNCHANGED <<matrix, aborted, frame>>
    /\ AssertUntouched

NextPool ==
    \/ PoolAlloc
    \/ PoolAllocNothing
    \/ PoolReset

SpecPool == InitPool /\ [][NextPool]_vars

\* The bytes of block lie inside data.
BlockInside(block) == block.at + block.size <= subject.pool.size

\* C29: after any calls of c3e_tensor_pool_alloc and c3e_tensor_pool_reset,
\* memory is a multiple of 8 between 0 and the capacity, every block
\* returned since the last reset starts where memory was, lies inside the
\* buffer and shares no byte with another such block, and a call that
\* returned NULL left memory and allocs as they were.
C29_PoolSafety ==
    ~aborted =>
        /\ 0 <= subject.pool.memory
        /\ subject.pool.memory <= subject.pool.size
        /\ subject.pool.memory % 8 = 0
        /\ \A i \in DOMAIN subject.blocks :
            /\ subject.blocks[i].at = subject.blocks[i].memory
            /\ BlockInside(subject.blocks[i])
            /\ \A j \in DOMAIN subject.blocks :
                i < j => subject.blocks[i].at + subject.blocks[i].size
                             <= subject.blocks[j].at
        /\ (op = "pool_alloc" /\ result.null) =>
               /\ subject.pool.memory = subject.before.memory
               /\ subject.pool.allocs = subject.before.allocs


(***************************************************************************)
(* The element-wise maps of vector.c.  matrix holds the argument vector,   *)
(* subject the exponent of c3e_vector_pow, result the vector returned.     *)
(* The functions of <math.h> other than sqrt and pow are not computed: an  *)
(* element they are applied to is kept as the function and its argument.   *)
(***************************************************************************)
\* The maps that apply one function of <math.h> and nothing else.
MathMaps ==
    {"arc_sin", "arc_sinh", "sin", "sinh", "arc_cos", "arc_cosh", "cos",
     "cosh", "arc_tan", "arc_tanh", "tan", "tanh", "log", "log10", "log2",
     "log1p"}

MapNames == MathMaps \cup {"abs", "pow", "rsqrt", "sqrt"}

\* (int) x for a finite x in the range of int: the fraction is dropped.
ToInt(x) ==
    IF x[3] >= 0
    THEN SignInt(x[1]) * ((AbsInt(x[1]) * Pow10(x[3])) \div x[2])
    ELSE SignInt(x[1]) * (AbsInt(x[1]) \div (x[2] * Pow10(-x[3])))

\* abs() of <stdlib.h>, int abs(int), called with a c3e_number and its
\* result stored as one.
abs(x) == Num(AbsInt(ToInt(x)))

\* pow(x, y) for the exponents 0, 1 and 2.
pow(x, y) ==
    IF y = Zero THEN One ELSE IF y = One THEN x ELSE Mul(x, x)

\* The right side of out->data[i] = ... in the loop of the map.
MapElement(name, x, y) ==
    CASE name = "abs" -> abs(x)
      [] name = "pow" -> pow(x, y)
      [] name = "rsqrt" -> Div(One, Sqrt(x))
      [] name = "sqrt" -> Sqrt(x)
      [] OTHER -> [fn |-> name, of |-> x]

\* The vector the loop of the map fills.
c3e_vector_map(name, vector, y) ==
    Vector(vector.size,
           [i \in 1..vector.size |-> MapElement(name, vector.data[i], y)])

\* The condition every map hands to c3e_assert.
MapAsserts(vector) == vector.size = 0

MapValues == {Num(-1), Zero, One, Num(4), Rat(-3, 2, 0), Rat(9, 4, 0)}

MapVectors ==
    UNION {{Vector(n, d) : d \in [1..n -> MapValues]} : n \in 0..MaxDim}

Exponents == {Zero, One, Num(2)}

InitMaps ==
    /\ frame = Idle
    /\ matrix \in MapVectors
    /\ subject = None
    /\ op = "none"
    /\ aborted = FALSE
    /\ result = None
    /\ assert_handler = NULL
    /\ handled = <<>>
    /\ log = <<>>

\* The map name called with the vector and y: c3e_assert, then the loop.
VectorMap(name, y) ==
    /\ op = "none"
    /\ op' = name
    /\ subject' = y
    /\ IF MapAsserts(matrix)
       THEN /\ result' = c3e_vector_map(name, matrix, y)
            /\ UNCHANGED <<aborted, handled>>
       ELSE IF assert_handler # NULL
       THEN /\ handled' = Append(handled, assert_handler)
            /\ result' = c3e_vector_map(name, matrix, y)
            /\ UNCHANGED aborted
       ELSE /\ aborted' = TRUE
            /\ UNCHANGED <<result, handled>>
    /\ UNCHANGED <<matrix, frame, assert_handler, log>>

c3e_vector_abs == VectorMap("abs", None)

c3e_vector_sqrt == VectorMap("sqrt", None)

c3e_vector_rsqrt == VectorMap("rsqrt", None)

c3e_vector_pow == \E y \in Exponents : VectorMap("pow", y)

\* c3e_vector_arc_sin .. c3e_vector_log1p.
c3e_vector_math == \E name \in MathMaps : VectorMap(name, None)

NextMaps ==
    \/ c3e_assert_handler
    \/ c3e_vector_abs
    \/ c3e_vector_sqrt
    \/ c3e_vector_rsqrt
    \/ c3e_vector_pow
    \/ c3e_vector_math

SpecMaps == InitMaps /\ [][NextMaps]_vars

\* The function a map is documented to apply to an element.
Documented(name, x, y) ==
    IF name = "abs" THEN Fabs(x) ELSE MapElement(name, x, y)

\* C22: a map called with a vector of at least one element passes its
\* assertion (the process goes on and no handler is called) and returns a
\* vector of the same size whose elements are the function of the
\* argument's.
C22_MapsAcceptNonEmpty ==
    (op \in MapNames /\ matrix.size > 0) =>
        /\ ~aborted
        /\ handled = <<>>
        /\ result.size = matrix.size
        /\ \A i \in 1..matrix.size :
            result.data[i] = Documented(op, matrix.data[i], subject)

=============================================================================
